---- MODULE Spec2Model ----
(***************************************************************************)
(* SafeGrid telemetry pipeline: the publishing sampler                     *)
(* (raspberry/estadisticas.py), the store-writing sampler                  *)
(* (safegrid-dashboard/stats_writer.py) and the outlet ingestor            *)
(* (safegrid-dashboard/ingest_tomas.py).                                   *)
(*                                                                         *)
(* Units.  Python floats are modelled in fixed point:                      *)
(*   - a rate in Mbps is an integer number of micro-Mbps (1.0 Mbps =       *)
(*     1000000), so bytes*8/(INTERVAL*1e6) Mbps is bytes*8 \div INTERVAL;  *)
(*   - a CPU percentage is an integer number of milli-percent (50.0 % =    *)
(*     50000);                                                             *)
(*   - the wall clock of stats_writer is counted in tenths of a second.    *)
(* An optional value (Python None) is the empty tuple, a present value v   *)
(* is the one-element tuple <<v>>.                                         *)
(***************************************************************************)
EXTENDS Integers, Sequences, FiniteSets, TLC

Last(q) == q[Len(q)]

None == <<>>
Some(v) == <<v>>
IsNone(x) == x = <<>>
Val(x) == x[1]

Max(a, b) == IF a >= b THEN a ELSE b
Min(a, b) == IF a <= b THEN a ELSE b

\* Python round(x, ndigits) on a fixed-point value: the nearest multiple of q,
\* a tie going to the even multiple.
RoundTo(x, q) ==
  LET lo == (x \div q) * q
      r  == x - lo
  IN  IF 2 * r < q THEN lo
      ELSE IF 2 * r > q THEN lo + q
      ELSE IF (lo \div q) % 2 = 0 THEN lo ELSE lo + q

\* dict.get(k, None)
Get(d, k) == IF k \in DOMAIN d THEN Some(d[k]) ELSE None

(***************************************************************************)
(* Program constants                                                       *)
(***************************************************************************)
INTERVAL == 1
CLASS_HIGH == "1:10"
CLASS_MED == "1:20"
CLASS_LOW == "1:30"
TOPIC_TOMA1_TELEM == "safegrid/toma1/telemetry"
TOPIC_TOMA1_ALERT == "safegrid/toma1/alert"
TOPIC_TOMA1_STATUS == "safegrid/toma1/status"
SubscribedTopics == {TOPIC_TOMA1_TELEM, TOPIC_TOMA1_ALERT, TOPIC_TOMA1_STATUS}

(***************************************************************************)
(* Bounds and input sets                                                   *)
(***************************************************************************)
\* messages the subscriber of estadisticas.py receives in one behaviour
MaxMsgs == 2
\* payload sizes (bytes) of those messages
MsgSizes == {125000, 250000}
\* the messages delivered to _on_message: JSON and non-JSON payloads of the
\* two sizes on the telemetry and alert topics, and a status text
SubscriberMsgs ==
  { m \in [topic : {"safegrid/toma1/telemetry", "safegrid/toma1/alert", "safegrid/toma1/status"},
           nbytes : MsgSizes, parses : BOOLEAN] :
      \/ m.topic = "safegrid/toma1/telemetry" /\ (m.parses <=> m.nbytes = 250000)
      \/ m.topic = "safegrid/toma1/alert" /\ (m.parses <=> m.nbytes = 125000)
      \/ m.topic = "safegrid/toma1/status" /\ ~m.parses /\ m.nbytes = 125000 }

\* What the host shows at one instant:
\*   cpu: /proc/stat as <<total, idle>> (idle and iowait may go backwards, and
\*        every counter restarts after a reboot),
\*   net: /sys/class/net/<iface>/statistics as <<rx_bytes, tx_bytes>>,
\*   tc:  `tc -s class show dev` as classid -> bytes sent; the empty function
\*        is "no tc / no classes", "1:1" is the htb root class.
HostReadings ==
  { [cpu |-> <<100, 50>>,  net |-> <<0, 0>>,           tc |-> <<>>],
    [cpu |-> <<200, 100>>, net |-> <<500000, 125000>>, tc |-> <<>>],
    [cpu |-> <<210, 95>>,  net |-> <<0, 0>>,           tc |-> [c \in {"1:1"} |-> 900]],
    [cpu |-> <<100, 50>>,  net |-> <<0, 0>>,           tc |-> [c \in {CLASS_HIGH} |-> 1000]],
    [cpu |-> <<200, 100>>, net |-> <<500000, 125000>>,
     tc |-> [c \in {CLASS_HIGH, CLASS_MED} |-> 126000]],
    [cpu |-> <<210, 95>>,  net |-> <<0, 0>>,
     tc |-> [c \in {CLASS_HIGH, CLASS_MED, CLASS_LOW} |-> 1000]],
    [cpu |-> <<200, 100>>, net |-> <<0, 0>>,
     tc |-> [c \in {CLASS_HIGH, CLASS_MED, CLASS_LOW} |->
               IF c = CLASS_HIGH THEN 126000 ELSE IF c = CLASS_MED THEN 251000 ELSE 876000]],
    [cpu |-> <<100, 50>>,  net |-> <<0, 0>>,           tc |-> [c \in {CLASS_HIGH} |-> 251000]] }

\* passes of the loop of stats_writer.main in one behaviour
MaxSwTicks == 3
\* how far time.time() moves between two passes of stats_writer.main, in tenths
\* of a second: the sleep of one second, the clock set back, the clock set
\* forward past the retention window
SwSteps == {10, -20, 18010}
\* time.time() when stats_writer starts, in tenths of a second
SwStart == 20000

\* ensure_schema calls on one store in one behaviour
MaxSchemaCalls == 2

\* messages delivered to the ingestor in one behaviour
MaxIngest == 2
\* transactions other processes commit on the store around one build_snapshot
MaxWrites == 1
\* time.time() when build_snapshot is called, in seconds
SnStart == 1000
\* the arguments of build_snapshot: the defaults of its signature, and small
\* windows with a longer TTL
SnapshotArgs ==
  { [max_rows_per_table |-> m, toma_points |-> m, ttl_sec |-> t] :
      m \in {1, 2, 60}, t \in {10, 15} }
\* the ingestor's clock stays within this many seconds of its start
MaxNow == 1
\* how far time.time() moves between two readings by the ingestor, in seconds
IngSteps == {1, -1}

(***************************************************************************)
(* State                                                                   *)
(***************************************************************************)
VARIABLES
  \* ---- estadisticas.py: module state shared by the two threads
  latest_toma1,   \* latest_toma1: the byte accumulators, and under "telemetry",
                  \*   "alert", "status" what is kept of the last message:
                  \*   "None", "json" (the parsed value), "raw" ({"raw": payload})
                  \*   or "text" (the stripped payload)
  latest_lock,    \* holder of _latest_lock: "free" or "main"
  \* ---- estadisticas.py: the paho callback thread (_on_message)
  msg,            \* the message _on_message is handling: None or
                  \*   <<[topic, nbytes, data]>>, data what json.loads made of it
  \* ---- estadisticas.py: locals of main()
  pc_main,        \* "sleep" (top of the loop), "reset" (inside the lock) or
                  \*   "dead" (an exception has left main and ended the process)
  t0,             \* <<t0_total, t0_idle>>
  cpu_pct,
  rx0tx0,         \* <<rx0, tx0>>
  total_mbps,
  cur_tc,         \* the shaper reading of the last pass (of the start, as last_tc,
                  \*   before the first pass): classid -> bytes sent
  last_hi, last_med, last_low,
  hi_tc, med_tc, low_tc,
  b_telem, b_alert,
  hi_mbps, med_mbps, low_mbps, qos_src,
  payload_pi, payload_net,   \* the payloads handed to mosquitto_pub by the last pass
  \* ---- estadisticas.py: observation of the run
  n_msgs,         \* messages delivered to _on_message so far
  owed,           \* per accumulator: bytes delivered so far minus bytes read by ticks so far
  qos_trail,      \* qos_src of the last three published payloads, oldest first
  \* ---- stats_writer.py
  sw_now,         \* time.time() at the top of the loop, in tenths of a second
  prev_cpu,       \* _prev_cpu: None or <<<<total, idle>>>>
  rx,             \* _rx: classid -> last bytes
  last_t,         \* _last_t: None or <<time>>
  pi_samples,     \* rows [ts, cpu_pct]
  net_samples,    \* rows [ts, hi_mbps, med_mbps, low_mbps, qos_src]
  sw_ticks,       \* passes of the loop so far
  pc_sw,          \* "loop", or "dead": an exception has left main
  \* ---- ingest_tomas.py
  ing_now,        \* time.time() in seconds
  toma_samples,   \* rows [ts, toma, estado, via]; via is not a column: it is the
  alert_samples,  \*   topic entity of the message the row came from
  pc_telem,       \* the telem client's thread: "idle", "insert" (row built, at
                  \*   `with self.lock`), "locked" (inside it) or "dead"
  telem_row,      \* the row insert_telem has built and not yet inserted
  pc_alert,       \* the alert client's thread, likewise
  alert_row,
  writer_lock,    \* holder of Writer.lock: "free", "telem" or "alert"
  last_print,     \* Writer.last_print: None (never printed) or <<time>>
  n_ing,          \* messages delivered to on_telem / on_alert so far
  n_malformed,    \* of them, those with no entity, invalid JSON or a non-object
  last_msg,       \* the last message delivered: None or <<[kind, id, doc, accepted]>>
  \* ---- the paho client of estadisticas.py or of ingest_tomas.py
  broker_up,      \* the broker accepts connections
  cl_state,       \* "connect" (main is in c.connect), "connected", "waiting" (the
                  \*   loop thread is between reconnect attempts) or "terminated"
  cl_delay,       \* paho's reconnect delay: None or <<seconds>>
  cl_subscribed,  \* the subscriptions of _on_connect are in place
  \* ---- the store file, as the ensure_schema functions see it
  db,             \* [tables: name -> None or <<[cols, rows]>>, indexes: set of
                  \*   [name, table, cols]]; cols a sequence of column names, a
                  \*   row a function from the column names to values
  db_log,         \* the ensure_schema calls so far: [who, raised], oldest first
  db_exists,      \* os.path.exists(db): the store file is there
  \* ---- snapshot_db.py: one call of build_snapshot
  sn_pc,          \* "idle" (not called yet), "net", "latest", "series", "count",
                  \*   "alerts" (the statement group the call is about to execute),
                  \*   "done" (returned), "raised", or "shown" (the dashboard
                  \*   has made its outlet list of the snapshot)
  sn_call,        \* None or <<[now, max_rows_per_table, toma_points, ttl_sec]>>
  out,            \* the dict `out` of the call: None before it
  latest_map,     \* the local latest_map
  n_writes,       \* transactions committed by other processes so far
  \* ---- dashboard_server.py
  tomas_detail,   \* None, or <<d>> with d[k] the entry of outlet k in the list
                  \*   _tomas_detail_from_ttl made of the snapshot
  \* ---- snapshot_db.py: observation of the call
  sn_read,        \* the store as each statement group of the call read it, in order
  sn_states,      \* the store states there have been since the call connected
  \* ---- the part of the system the behaviour follows
  proc            \* "estadisticas", "stats_writer", "ingest_tomas", or the
                  \*   transport side of a program: "estadisticas_mqtt",
                  \*   "ingest_tomas_mqtt"; "ensure_schema": the start-ups of
                  \*   the programs on one store file; or "build_snapshot"

estSharedVars == <<latest_toma1, latest_lock>>
estSubVars == <<msg, n_msgs>>
estCpuVars == <<t0, cpu_pct>>
estNetVars == <<rx0tx0, total_mbps>>
estTcVars == <<cur_tc, last_hi, last_med, last_low, hi_tc, med_tc, low_tc>>
estSplitVars == <<hi_mbps, med_mbps, low_mbps, qos_src, payload_pi, payload_net, qos_trail>>
estMainVars == <<pc_main, estCpuVars, estNetVars, estTcVars, b_telem, b_alert, estSplitVars>>
estVars == <<estSharedVars, estSubVars, owed, estMainVars>>

swVars == <<sw_now, prev_cpu, rx, last_t, pi_samples, net_samples, sw_ticks, pc_sw>>
ingTelemVars == <<pc_telem, telem_row>>
ingAlertVars == <<pc_alert, alert_row>>
ingWriterVars == <<writer_lock, last_print>>
ingSeenVars == <<n_ing, n_malformed, last_msg>>
ingVars == <<ing_now, toma_samples, alert_samples, ingTelemVars, ingAlertVars, ingWriterVars,
             ingSeenVars>>

clVars == <<broker_up, cl_state, cl_delay, cl_subscribed>>

dbVars == <<db, db_log, db_exists>>
snVars == <<sn_pc, sn_call, out, latest_map, n_writes, sn_read, sn_states, tomas_detail>>

vars == <<estVars, swVars, ingVars, clVars, dbVars, snVars, proc>>

\* the behaviour follows process p
Runs(p) == proc = p

(***************************************************************************)
(* estadisticas.py                                                         *)
(***************************************************************************)

\* (mutant) the lock is never waited for
LatestLockFree_NoLock == TRUE

\* `with _latest_lock:` can be entered
LatestLockFree == latest_lock = "free"

\* the accumulator a topic is counted in
BytesKey(topic) ==
  IF topic = TOPIC_TOMA1_TELEM THEN "bytes_telem"
  ELSE IF topic = TOPIC_TOMA1_ALERT THEN "bytes_alert"
  ELSE "bytes_status"

\* the key of latest_toma1 the message of a topic is kept under
DataKey(topic) ==
  IF topic = TOPIC_TOMA1_TELEM THEN "telemetry"
  ELSE IF topic = TOPIC_TOMA1_ALERT THEN "alert"
  ELSE "status"

\* try: data = json.loads(payload) / except Exception: data = {"raw": payload}
ParsedData(parses) == IF parses THEN "json" ELSE "raw"

\* paho invokes _on_message(client, userdata, msg): decoding and json.loads,
\* up to the entry of `with _latest_lock`
OnMessageArrive ==
  /\ Runs("estadisticas")
  /\ pc_main # "dead"
  /\ IsNone(msg)
  /\ n_msgs < MaxMsgs
  /\ \E m \in SubscriberMsgs :
       LET topic == m.topic
           nbytes == m.nbytes
       IN
       /\ msg' = Some([topic |-> topic, nbytes |-> nbytes, data |-> ParsedData(m.parses)])
       /\ owed' = [owed EXCEPT ![BytesKey(topic)] = @ + nbytes]
  /\ n_msgs' = n_msgs + 1
  /\ UNCHANGED <<swVars, ingVars, clVars, dbVars, snVars, proc>>
  /\ UNCHANGED <<estSharedVars, estMainVars>>

\* the body of `with _latest_lock` in _on_message, entered and left in one step
OnMessageCount ==
  /\ Runs("estadisticas")
  /\ pc_main # "dead"
  /\ ~IsNone(msg)
  /\ LatestLockFree
  /\ latest_toma1' = [latest_toma1 EXCEPT
                         ![BytesKey(Val(msg).topic)] = @ + Val(msg).nbytes,
                         ![DataKey(Val(msg).topic)] =
                            IF Val(msg).topic = TOPIC_TOMA1_STATUS THEN "text" ELSE Val(msg).data]
  /\ msg' = None
  /\ UNCHANGED <<swVars, ingVars, clVars, dbVars, snVars, proc>>
  /\ UNCHANGED <<latest_lock, n_msgs, owed, estMainVars>>

\* cpu_pct of one tick, in milli-percent
EstCpuPct(t1, t0v) ==
  LET dt_total == t1[1] - t0v[1]
      dt_idle  == t1[2] - t0v[2]
  IN  IF dt_total <= 0 THEN 0
      ELSE (100000 * (dt_total - dt_idle)) \div dt_total

\* total_mbps of one tick
EstTotalMbps(n1, n0) ==
  LET drx == n1[1] - n0[1]
      dtx == n1[2] - n0[2]
      down_mbps == (drx * 8) \div INTERVAL
      up_mbps   == (dtx * 8) \div INTERVAL
  IN  Max(down_mbps + up_mbps, 0)

\* (mutant) no `if d < 0` guard
rate_mbps_Unguarded(cur, prev) ==
  IF IsNone(cur) \/ IsNone(prev) THEN None
  ELSE Some(((Val(cur) - Val(prev)) * 8) \div INTERVAL)

rate_mbps(cur, prev) ==
  IF IsNone(cur) \/ IsNone(prev) THEN None
  ELSE LET d == Val(cur) - Val(prev)
       IN  IF d < 0 THEN None ELSE Some((d * 8) \div INTERVAL)

\* (mutant) the shaper is used only when all three classes are measured
SelectSplit_AllClasses(hi, med, low, total, telem_mbps, alert_mbps) ==
  LET use_tc == ~IsNone(hi) /\ ~IsNone(med) /\ ~IsNone(low)
  IN  IF use_tc
      THEN <<Val(hi), Val(med), Val(low), "tc">>
      ELSE <<alert_mbps, telem_mbps, Max(total - alert_mbps - telem_mbps, 0), "mqtt">>

\* (mutant) once the shaper has been used it stays the source
SelectSplit_Sticky(hi, med, low, total, telem_mbps, alert_mbps) ==
  LET use_tc == \/ ~IsNone(hi) \/ ~IsNone(med) \/ ~IsNone(low)
                \/ (qos_trail # <<>> /\ qos_trail[Len(qos_trail)] = "tc")
  IN  IF use_tc
      THEN LET h == IF ~IsNone(hi) THEN Val(hi) ELSE 0
               m == IF ~IsNone(med) THEN Val(med) ELSE 0
               l == IF ~IsNone(low) THEN Val(low) ELSE Max(total - h - m, 0)
           IN  <<h, m, l, "tc">>
      ELSE <<alert_mbps, telem_mbps, Max(total - alert_mbps - telem_mbps, 0), "mqtt">>

\* (mutant) alert volume goes to medium and telemetry volume to high
SelectSplit_Swapped(hi, med, low, total, telem_mbps, alert_mbps) ==
  LET use_tc == ~IsNone(hi) \/ ~IsNone(med) \/ ~IsNone(low)
  IN  IF use_tc
      THEN LET h == IF ~IsNone(hi) THEN Val(hi) ELSE 0
               m == IF ~IsNone(med) THEN Val(med) ELSE 0
               l == IF ~IsNone(low) THEN Val(low) ELSE Max(total - h - m, 0)
           IN  <<h, m, l, "tc">>
      ELSE <<telem_mbps, alert_mbps, Max(total - alert_mbps - telem_mbps, 0), "mqtt">>

\* the source selection of one tick: <<hi_mbps, med_mbps, low_mbps, qos_src>>
SelectSplit(hi, med, low, total, telem_mbps, alert_mbps) ==
  LET use_tc == ~IsNone(hi) \/ ~IsNone(med) \/ ~IsNone(low)
  IN  IF use_tc
      THEN LET h == IF ~IsNone(hi) THEN Val(hi) ELSE 0
               m == IF ~IsNone(med) THEN Val(med) ELSE 0
               l == IF ~IsNone(low) THEN Val(low) ELSE Max(total - h - m, 0)
           IN  <<h, m, l, "tc">>
      ELSE <<alert_mbps, telem_mbps, Max(total - alert_mbps - telem_mbps, 0), "mqtt">>

\* One pass of `while True`, first half: time.sleep(INTERVAL), the host,
\* interface and tc readings, entering `with _latest_lock` and reading the two
\* accumulators.  The locals of the previous pass are dead here and the
\* previous publication has left the process: they are cleared.
TickSample ==
  /\ Runs("estadisticas")
  /\ pc_main = "sleep"
  /\ \E h \in HostReadings :
       /\ cpu_pct' = EstCpuPct(h.cpu, t0)
       /\ t0' = h.cpu
       /\ total_mbps' = EstTotalMbps(h.net, rx0tx0)
       /\ rx0tx0' = h.net
       /\ cur_tc' = h.tc
       /\ IF h.tc # <<>>
          THEN LET cur_hi  == Get(h.tc, CLASS_HIGH)
                   cur_med == Get(h.tc, CLASS_MED)
                   cur_low == Get(h.tc, CLASS_LOW)
               IN  /\ hi_tc'  = rate_mbps(cur_hi, last_hi)
                   /\ med_tc' = rate_mbps(cur_med, last_med)
                   /\ low_tc' = rate_mbps(cur_low, last_low)
                   /\ last_hi' = cur_hi
                   /\ last_med' = cur_med
                   /\ last_low' = cur_low
          ELSE /\ hi_tc' = None
               /\ med_tc' = None
               /\ low_tc' = None
               /\ UNCHANGED <<last_hi, last_med, last_low>>
  /\ LatestLockFree
  /\ latest_lock' = "main"
  /\ b_telem' = latest_toma1["bytes_telem"]
  /\ b_alert' = latest_toma1["bytes_alert"]
  /\ owed' = [owed EXCEPT !["bytes_telem"] = @ - latest_toma1["bytes_telem"],
                          !["bytes_alert"] = @ - latest_toma1["bytes_alert"]]
  /\ hi_mbps' = 0
  /\ med_mbps' = 0
  /\ low_mbps' = 0
  /\ qos_src' = ""
  /\ payload_pi' = None
  /\ payload_net' = None
  /\ pc_main' = "reset"
  /\ UNCHANGED <<swVars, ingVars, clVars, dbVars, snVars, proc>>
  /\ UNCHANGED <<latest_toma1, estSubVars, qos_trail>>

\* Second half: the reset of the two accumulators, leaving the lock, the
\* selection and the two mosquitto_pub calls.
TickPublish ==
  /\ Runs("estadisticas")
  /\ pc_main = "reset"
  /\ latest_toma1' = [latest_toma1 EXCEPT !["bytes_telem"] = 0, !["bytes_alert"] = 0]
  /\ latest_lock' = "free"
  /\ LET telem_mbps == (b_telem * 8) \div INTERVAL
         alert_mbps == (b_alert * 8) \div INTERVAL
         s == SelectSplit(hi_tc, med_tc, low_tc, total_mbps, telem_mbps, alert_mbps)
     IN  /\ hi_mbps' = s[1]
         /\ med_mbps' = s[2]
         /\ low_mbps' = s[3]
         /\ qos_src' = s[4]
         /\ payload_pi' = Some([cpu_pct |-> RoundTo(cpu_pct, 100)])
         /\ payload_net' = Some([hi_mbps |-> RoundTo(s[1], 100),
                                 med_mbps |-> RoundTo(s[2], 100),
                                 low_mbps |-> RoundTo(s[3], 100),
                                 qos_src |-> s[4]])
         /\ qos_trail' = LET t == Append(qos_trail, s[4])
                         IN  IF Len(t) > 3 THEN Tail(t) ELSE t
  /\ pc_main' = "sleep"
  /\ UNCHANGED <<swVars, ingVars, clVars, dbVars, snVars, proc>>
  /\ UNCHANGED <<estSubVars, owed, estCpuVars, estNetVars, estTcVars, b_telem, b_alert>>

\* A pass in which a counter file cannot be read (the interface is away, so
\* /sys/class/net/<iface>/statistics/rx_bytes does not exist): open() raises in
\* net_bytes, or likewise in cpu_usage_total_idle, mem_used_total_gb,
\* cpu_temp_c or uptime_s; nothing in main catches it, the exception leaves
\* main and the process ends with its daemon subscriber thread.  Followed
\* for the passes before the first message; a later pass fails the same way
TickReadFails ==
  /\ Runs("estadisticas")
  /\ pc_main = "sleep"
  /\ n_msgs = 0
  /\ pc_main' = "dead"
  /\ UNCHANGED <<swVars, ingVars, clVars, dbVars, snVars, proc>>
  /\ UNCHANGED <<estSharedVars, estSubVars, owed, estCpuVars, estNetVars, estTcVars,
                 b_telem, b_alert, estSplitVars>>

\* main() up to `while True`, with the subscriber started
EstInit(readings) ==
  /\ latest_toma1 = [telemetry |-> "None", alert |-> "None", status |-> "None",
                     bytes_telem |-> 0, bytes_alert |-> 0, bytes_status |-> 0]
  /\ latest_lock = "free"
  /\ msg = None
  /\ n_msgs = 0
  /\ owed = [bytes_telem |-> 0, bytes_alert |-> 0, bytes_status |-> 0]
  /\ pc_main = "sleep"
  /\ \E h \in readings :
       /\ t0 = h.cpu
       /\ rx0tx0 = h.net
       /\ cur_tc = h.tc
       /\ last_hi = Get(h.tc, CLASS_HIGH)
       /\ last_med = Get(h.tc, CLASS_MED)
       /\ last_low = Get(h.tc, CLASS_LOW)
  /\ cpu_pct = 0
  /\ total_mbps = 0
  /\ hi_tc = None
  /\ med_tc = None
  /\ low_tc = None
  /\ b_telem = 0
  /\ b_alert = 0
  /\ hi_mbps = 0
  /\ med_mbps = 0
  /\ low_mbps = 0
  /\ qos_src = ""
  /\ payload_pi = None
  /\ payload_net = None
  /\ qos_trail = <<>>

EstNext ==
  \/ OnMessageArrive
  \/ OnMessageCount
  \/ TickSample
  \/ TickPublish
  \/ TickReadFails

(***************************************************************************)
(* stats_writer.py                                                         *)
(***************************************************************************)
QOS_SRC == "mqtt"

\* (mutant) the first call rates the counters since boot
sw_cpu_pct_SinceBoot(reading, prev) ==
  LET dt == reading[1]
      di == reading[2]
  IN  IF dt <= 0 THEN <<0, Some(reading)>>
      ELSE <<Max(0, Min(100000, ((dt - di) * 100000) \div dt)), Some(reading)>>

\* cpu_pct(): <<value returned in milli-percent, new _prev_cpu>>
sw_cpu_pct(reading, prev) ==
  IF IsNone(prev) THEN <<0, Some(reading)>>
  ELSE LET dt == reading[1] - Val(prev)[1]
           di == reading[2] - Val(prev)[2]
       IN  IF dt <= 0 THEN <<0, Some(reading)>>
           ELSE <<Max(0, Min(100000, ((dt - di) * 100000) \div dt)), Some(reading)>>

\* calc(cid) of net_mbps: the rate of one class over dt tenths of a second
calc(b, rxv, cid, dt) ==
  LET cur == IF cid \in DOMAIN b THEN b[cid] ELSE 0
      prev == IF cid \in DOMAIN rxv THEN rxv[cid] ELSE cur
      dbytes == Max(0, cur - prev)
  IN  (dbytes * 8 * 10) \div dt

\* _rx after the three calc calls
RxAfter(b, rxv) ==
  [cid \in DOMAIN rxv \cup {CLASS_HIGH, CLASS_MED, CLASS_LOW} |->
     IF cid \in {CLASS_HIGH, CLASS_MED, CLASS_LOW}
     THEN (IF cid \in DOMAIN b THEN b[cid] ELSE 0)
     ELSE rxv[cid]]

\* net_mbps(): [rates, rx, last_t]
net_mbps(now, b, rxv, lt) ==
  IF b = <<>> THEN [rates |-> <<0, 0, 0>>, rx |-> rxv, last_t |-> lt]
  ELSE IF IsNone(lt) THEN [rates |-> <<0, 0, 0>>, rx |-> b, last_t |-> Some(now)]
  ELSE LET dt == Max(2, now - Val(lt))
       IN  [rates |-> <<calc(b, rxv, CLASS_HIGH, dt), calc(b, rxv, CLASS_MED, dt),
                        calc(b, rxv, CLASS_LOW, dt)>>,
            rx |-> RxAfter(b, rxv),
            last_t |-> Some(now)]

\* (mutant) nothing is deleted
Purge_Nothing(rows, cutoff) == rows

\* DELETE FROM <table> WHERE ts < cutoff
Purge(rows, cutoff) == SelectSeq(rows, LAMBDA r : r.ts >= cutoff)

\* one pass of `while True` in main(), with the sleep that ends it
SwTick ==
  /\ Runs("stats_writer")
  /\ pc_sw = "loop"
  /\ sw_ticks < MaxSwTicks
  /\ \E h \in HostReadings, step \in SwSteps :
       LET ts == sw_now \div 10
           c == sw_cpu_pct(h.cpu, prev_cpu)
           n == net_mbps(sw_now, h.tc, rx, last_t)
           cutoff == ts - 1800
       IN  /\ prev_cpu' = c[2]
           /\ rx' = n.rx
           /\ last_t' = n.last_t
           /\ pi_samples' = Purge(Append(pi_samples, [ts |-> ts, cpu_pct |-> c[1]]), cutoff)
           /\ net_samples' = Purge(Append(net_samples,
                                 [ts |-> ts, hi_mbps |-> n.rates[1], med_mbps |-> n.rates[2],
                                  low_mbps |-> n.rates[3], qos_src |-> QOS_SRC]), cutoff)
           /\ sw_now' = sw_now + step
  /\ sw_ticks' = sw_ticks + 1
  /\ UNCHANGED <<estVars, ingVars, clVars, dbVars, snVars, pc_sw, proc>>

\* A pass during which another process holds the store's write lock for
\* longer than the connection's timeout of 5 s: statement k of the pass (the
\* two INSERTs, then the two DELETEs) raises sqlite3.OperationalError.  The
\* statements before it are committed (isolation_level=None); nothing in
\* main catches the exception: `finally` closes the connection and the
\* process ends
SwTickBusy ==
  /\ Runs("stats_writer")
  /\ pc_sw = "loop"
  /\ sw_ticks < MaxSwTicks
  /\ \E h \in HostReadings, k \in 1..4 :
       LET ts == sw_now \div 10
           c == sw_cpu_pct(h.cpu, prev_cpu)
           n == net_mbps(sw_now, h.tc, rx, last_t)
           cutoff == ts - 1800
           pi == Append(pi_samples, [ts |-> ts, cpu_pct |-> c[1]])
           net == Append(net_samples,
                         [ts |-> ts, hi_mbps |-> n.rates[1], med_mbps |-> n.rates[2],
                          low_mbps |-> n.rates[3], qos_src |-> QOS_SRC])
       IN  /\ prev_cpu' = c[2]
           /\ rx' = IF k >= 2 THEN n.rx ELSE rx
           /\ last_t' = IF k >= 2 THEN n.last_t ELSE last_t
           /\ pi_samples' = IF k = 1 THEN pi_samples ELSE IF k <= 3 THEN pi ELSE Purge(pi, cutoff)
           /\ net_samples' = IF k <= 2 THEN net_samples ELSE net
  /\ pc_sw' = "dead"
  /\ UNCHANGED <<estVars, ingVars, clVars, dbVars, snVars, sw_now, sw_ticks, proc>>

\* main() up to `while True`: the store is opened and its schema ensured
SwInit ==
  /\ pc_sw = "loop"
  /\ sw_now = SwStart
  /\ prev_cpu = None
  /\ rx = <<>>
  /\ last_t = None
  /\ pi_samples = <<>>
  /\ net_samples = <<>>
  /\ sw_ticks = 0

SwNext == SwTick \/ SwTickBusy

(***************************************************************************)
(* ingest_tomas.py.  A text is the tuple of its characters.                *)
(***************************************************************************)
S_pi == <<"p", "i">>
S_ap == <<"a", "p">>
S_display == <<"d", "i", "s", "p", "l", "a", "y">>
S_dashboard == <<"d", "a", "s", "h", "b", "o", "a", "r", "d">>
RESERVED_IDS == {S_pi, S_ap, S_display, S_dashboard}

\* str.lower(), on the letters the inputs use
LowerChar(c) ==
  CASE c = "A" -> "a" [] c = "D" -> "d" [] c = "I" -> "i" [] c = "P" -> "p"
    [] c = "T" -> "t" [] OTHER -> c
lower(s) == [i \in 1..Len(s) |-> LowerChar(s[i])]

\* str.strip()
IsSpace(c) == c \in {" ", "\t", "\n"}
RECURSIVE lstrip(_)
lstrip(s) == IF s # <<>> /\ IsSpace(Head(s)) THEN lstrip(Tail(s)) ELSE s
RECURSIVE rstrip(_)
rstrip(s) == IF s # <<>> /\ IsSpace(s[Len(s)]) THEN rstrip(SubSeq(s, 1, Len(s) - 1)) ELSE s
strip(s) == rstrip(lstrip(s))

\* A JSON value of a payload field: a text or a one-digit number; an absent
\* field and null both read as None through doc.get.
JStr(s) == Some([t |-> "str", s |-> s])
JNum(n) == Some([t |-> "num", n |-> n])
\* bool(v)
Truthy(v) == ~IsNone(v) /\ (IF Val(v).t = "str" THEN Val(v).s # <<>> ELSE Val(v).n # 0)
\* str(v)
Digit(n) == CASE n = 0 -> "0" [] n = 1 -> "1" [] n = 2 -> "2" [] n = 3 -> "3" [] n = 4 -> "4"
              [] n = 5 -> "5" [] n = 6 -> "6" [] n = 7 -> "7" [] n = 8 -> "8" [] OTHER -> "9"
PyStr(v) == IF Val(v).t = "str" THEN Val(v).s ELSE <<Digit(Val(v).n)>>

S_toma1 == <<"t", "o", "m", "a", "1">>
S_toma2 == <<"t", "o", "m", "a", "2">>
S_Display == <<"D", "i", "s", "p", "l", "a", "y">>
S_Toma2_padded == <<" ", "T", "o", "m", "a", "2", " ">>
S_PI_padded == <<" ", "P", "I", " ">>

\* the entity segments of the topics delivered for safegrid/+/telemetry and
\* safegrid/+/alert: toma1, pi, Display, " pi" and the empty segment
EntitySegs == {S_toma1, S_pi, S_Display, <<" ", "p", "i">>, <<>>}

\* payloads: what json.loads makes of them ("invalid" raises); estado is
\* "text" for a text or an absent field and "object" for a JSON object, which
\* sqlite3 cannot bind
Docs ==
  { [json |-> "invalid", toma |-> None, id |-> None, estado |-> "text"],
    [json |-> "list", toma |-> None, id |-> None, estado |-> "text"],
    [json |-> "dict", toma |-> None, id |-> None, estado |-> "text"],
    [json |-> "dict", toma |-> JStr(S_Toma2_padded), id |-> None, estado |-> "text"],
    [json |-> "dict", toma |-> JStr(S_PI_padded), id |-> None, estado |-> "text"],
    [json |-> "dict", toma |-> None, id |-> JStr(S_display), estado |-> "text"],
    [json |-> "dict", toma |-> JStr(<<>>), id |-> JStr(<<"A", "p">>), estado |-> "text"],
    [json |-> "dict", toma |-> JNum(7), id |-> None, estado |-> "text"],
    [json |-> "dict", toma |-> JStr(<<" ", " ">>), id |-> None, estado |-> "text"],
    [json |-> "dict", toma |-> None, id |-> None, estado |-> "object"] }

\* topic_to_id(topic) on topic.split("/")
topic_to_id(parts) ==
  IF Len(parts) >= 3 /\ parts[1] = "safegrid" THEN Some(parts[2]) ELSE None

\* (mutant) the identifier is trimmed and not lowercased
Normalize_NoLower(t2) == strip(PyStr(t2))

\* str(t2).strip().lower()
Normalize(t2) == lower(strip(PyStr(t2)))

\* (mutant) the topic's entity is used whenever there is one
PayloadId_TopicWins(doc, toma) ==
  IF toma # <<>> THEN JStr(toma)
  ELSE IF Truthy(doc.toma) THEN doc.toma
  ELSE doc.id

\* t2 = (doc.get("toma") or doc.get("id") or toma)
PayloadId(doc, toma) ==
  IF Truthy(doc.toma) THEN doc.toma
  ELSE IF Truthy(doc.id) THEN doc.id
  ELSE JStr(toma)

\* (mutant) no test of the topic's entity against RESERVED_IDS
on_telem_NoTopicCheck(parts, doc) ==
  LET tid == topic_to_id(parts)
      toma == IF IsNone(tid) THEN <<>> ELSE Val(tid)
  IN  IF toma = <<>> THEN None
      ELSE IF doc.json # "dict" THEN None
      ELSE LET toma_norm == Normalize(PayloadId(doc, toma))
           IN  IF toma_norm \in RESERVED_IDS THEN None ELSE Some(toma_norm)

\* on_telem: None when the message is dropped, else <<toma_norm>> handed to
\* insert_telem
on_telem(parts, doc) ==
  LET tid == topic_to_id(parts)
      toma == IF IsNone(tid) THEN <<>> ELSE Val(tid)
  IN  IF toma = <<>> THEN None
      ELSE IF lower(toma) \in RESERVED_IDS THEN None
      ELSE IF doc.json # "dict" THEN None
      ELSE LET toma_norm == Normalize(PayloadId(doc, toma))
           IN  IF toma_norm \in RESERVED_IDS THEN None ELSE Some(toma_norm)

\* (mutant) the identifier is tested against RESERVED_IDS before it is normalized
on_alert_CheckBeforeNormalize(parts, doc) ==
  LET tid == topic_to_id(parts)
      toma == IF IsNone(tid) THEN <<>> ELSE Val(tid)
  IN  IF toma = <<>> THEN None
      ELSE IF doc.json # "dict" THEN None
      ELSE LET t2 == PayloadId(doc, toma)
           IN  IF PyStr(t2) \in RESERVED_IDS THEN None ELSE Some(Normalize(t2))

\* on_alert: None when the message is dropped, else <<toma_norm>> handed to
\* insert_alert
on_alert(parts, doc) ==
  LET tid == topic_to_id(parts)
      toma == IF IsNone(tid) THEN <<>> ELSE Val(tid)
  IN  IF toma = <<>> THEN None
      ELSE IF doc.json # "dict" THEN None
      ELSE LET toma_norm == Normalize(PayloadId(doc, toma))
           IN  IF toma_norm \in RESERVED_IDS THEN None ELSE Some(toma_norm)

\* now_ts()
now_ts == ing_now

PRINT_EVERY == 8

\* (mutant) an exception raised in a handler leaves it
HandlerExcept_Propagate == "raise"

\* `except Exception: return` of on_telem and on_alert
HandlerExcept == "return"

\* (mutant) Writer.lock is never waited for
WriterLockFree_NoLock == TRUE

\* `with self.lock` can be entered
WriterLockFree == writer_lock = "free"

\* (mutant) the statement is executed twice
InsertRow_Twice(table, row) == Append(Append(table, row), row)

\* (mutant) the row replaces the stored rows of the same toma
InsertRow_Upsert(table, row) ==
  Append([i \in 1..Len(table) |-> IF table[i].toma = row.toma THEN row ELSE table[i]], row)

\* con.execute("INSERT INTO <table>(...) VALUES(...)", row)
InsertRow(table, row) == Append(table, row)

\* sqlite3 raises on a parameter that is a dict or a list
Bindable(row) == row.estado # "object"

\* _maybe_print: the new last_print (time.time() is far above PRINT_EVERY)
maybe_print(now, lp) ==
  IF IsNone(lp) \/ now - Val(lp) >= PRINT_EVERY THEN Some(now) ELSE lp

\* toma = topic_to_id(msg.topic) or ""
TopicEntity(parts) == IF IsNone(topic_to_id(parts)) THEN <<>> ELSE Val(topic_to_id(parts))

\* json.loads is reached and raises, in on_telem and in on_alert
telem_raises(parts, doc) ==
  /\ TopicEntity(parts) # <<>>
  /\ lower(TopicEntity(parts)) \notin RESERVED_IDS
  /\ doc.json = "invalid"
alert_raises(parts, doc) == TopicEntity(parts) # <<>> /\ doc.json = "invalid"

\* a message with no entity segment, invalid JSON or JSON that is no object
Malformed(seg, doc) == seg = <<>> \/ doc.json # "dict"

\* on_telem(cli, userdata, msg) up to `with self.lock` in insert_telem
OnTelem ==
  /\ Runs("ingest_tomas")
  /\ pc_telem = "idle"
  /\ n_ing < MaxIngest
  /\ \E seg \in EntitySegs, doc \in Docs :
       LET parts == <<"safegrid", seg, "telemetry">>
           r == on_telem(parts, doc)
           raised == telem_raises(parts, doc)
       IN  /\ last_msg' = Some([kind |-> "telem", id |-> seg, doc |-> doc,
                                accepted |-> ~IsNone(r)])
           /\ n_malformed' = n_malformed + (IF Malformed(seg, doc) THEN 1 ELSE 0)
           /\ IF IsNone(r)
              THEN /\ pc_telem' = IF raised /\ HandlerExcept = "raise" THEN "dead" ELSE "idle"
                   /\ UNCHANGED telem_row
              ELSE /\ telem_row' = Some([ts |-> now_ts, toma |-> Val(r), estado |-> doc.estado,
                                         via |-> seg])
                   /\ pc_telem' = "insert"
  /\ n_ing' = n_ing + 1
  /\ UNCHANGED <<estVars, swVars, clVars, dbVars, snVars, proc, ing_now, toma_samples, alert_samples, ingAlertVars,
                 ingWriterVars>>

\* insert_telem enters `with self.lock`
TelemAcquire ==
  /\ Runs("ingest_tomas")
  /\ pc_telem = "insert"
  /\ WriterLockFree
  /\ writer_lock' = "telem"
  /\ pc_telem' = "locked"
  /\ UNCHANGED <<estVars, swVars, clVars, dbVars, snVars, proc, ing_now, toma_samples, alert_samples, telem_row,
                 ingAlertVars, last_print, ingSeenVars>>

\* self.con.execute(INSERT INTO toma_samples ...), leaving `with self.lock`,
\* then _maybe_print; an exception of execute leaves insert_telem and is
\* caught in on_telem
TelemInsert ==
  /\ Runs("ingest_tomas")
  /\ pc_telem = "locked"
  /\ IF Bindable(Val(telem_row))
     THEN /\ toma_samples' = InsertRow(toma_samples, Val(telem_row))
          /\ last_print' = maybe_print(ing_now, last_print)
          /\ pc_telem' = "idle"
     ELSE /\ UNCHANGED <<toma_samples, last_print>>
          /\ pc_telem' = IF HandlerExcept = "raise" THEN "dead" ELSE "idle"
  /\ writer_lock' = IF writer_lock = "telem" THEN "free" ELSE writer_lock
  /\ telem_row' = None
  /\ UNCHANGED <<estVars, swVars, clVars, dbVars, snVars, proc, ing_now, alert_samples, ingAlertVars, ingSeenVars>>

\* on_alert(cli, userdata, msg) up to `with self.lock` in insert_alert
OnAlert ==
  /\ Runs("ingest_tomas")
  /\ pc_alert = "idle"
  /\ n_ing < MaxIngest
  /\ \E seg \in EntitySegs, doc \in Docs :
       LET parts == <<"safegrid", seg, "alert">>
           r == on_alert(parts, doc)
           raised == alert_raises(parts, doc)
       IN  /\ last_msg' = Some([kind |-> "alert", id |-> seg, doc |-> doc,
                                accepted |-> ~IsNone(r)])
           /\ n_malformed' = n_malformed + (IF Malformed(seg, doc) THEN 1 ELSE 0)
           /\ IF IsNone(r)
              THEN /\ pc_alert' = IF raised /\ HandlerExcept = "raise" THEN "dead" ELSE "idle"
                   /\ UNCHANGED alert_row
              ELSE /\ alert_row' = Some([ts |-> now_ts, toma |-> Val(r), estado |-> doc.estado,
                                         via |-> seg])
                   /\ pc_alert' = "insert"
  /\ n_ing' = n_ing + 1
  /\ UNCHANGED <<estVars, swVars, clVars, dbVars, snVars, proc, ing_now, toma_samples, alert_samples, ingTelemVars,
                 ingWriterVars>>

\* insert_alert enters `with self.lock`
AlertAcquire ==
  /\ Runs("ingest_tomas")
  /\ pc_alert = "insert"
  /\ WriterLockFree
  /\ writer_lock' = "alert"
  /\ pc_alert' = "locked"
  /\ UNCHANGED <<estVars, swVars, clVars, dbVars, snVars, proc, ing_now, toma_samples, alert_samples, alert_row,
                 ingTelemVars, last_print, ingSeenVars>>

\* self.con.execute(INSERT INTO alert_samples ...), leaving `with self.lock`,
\* then _maybe_print
AlertInsert ==
  /\ Runs("ingest_tomas")
  /\ pc_alert = "locked"
  /\ IF Bindable(Val(alert_row))
     THEN /\ alert_samples' = InsertRow(alert_samples, Val(alert_row))
          /\ last_print' = maybe_print(ing_now, last_print)
          /\ pc_alert' = "idle"
     ELSE /\ UNCHANGED <<alert_samples, last_print>>
          /\ pc_alert' = IF HandlerExcept = "raise" THEN "dead" ELSE "idle"
  /\ writer_lock' = IF writer_lock = "alert" THEN "free" ELSE writer_lock
  /\ alert_row' = None
  /\ UNCHANGED <<estVars, swVars, clVars, dbVars, snVars, proc, ing_now, toma_samples, ingTelemVars, ingSeenVars>>

\* time.time() moves between two readings: a second passes, or the wall clock
\* is set back a second (followed for one moment: the clock at its latest,
\* the first message delivered and both handler threads idle)
IngClock ==
  /\ Runs("ingest_tomas")
  /\ \E step \in IngSteps :
       /\ ing_now + step \in 0..MaxNow
       /\ step < 0 => n_ing = 1 /\ ing_now = MaxNow /\ pc_telem = "idle" /\ pc_alert = "idle"
       /\ ing_now' = ing_now + step
  /\ UNCHANGED <<estVars, swVars, clVars, dbVars, snVars, proc, toma_samples, alert_samples, ingTelemVars,
                 ingAlertVars, ingWriterVars, ingSeenVars>>

\* main() with the Writer built on a new store and both clients started
IngInit ==
  /\ ing_now = 0
  /\ toma_samples = <<>>
  /\ alert_samples = <<>>
  /\ pc_telem = "idle"
  /\ telem_row = None
  /\ pc_alert = "idle"
  /\ alert_row = None
  /\ writer_lock = "free"
  /\ last_print = None
  /\ n_ing = 0
  /\ n_malformed = 0
  /\ last_msg = None

IngNext ==
  \/ OnTelem
  \/ TelemAcquire
  \/ TelemInsert
  \/ OnAlert
  \/ AlertAcquire
  \/ AlertInsert
  \/ IngClock

(***************************************************************************)
(* The paho client: start_mqtt_subscriber of estadisticas.py, make_client  *)
(* of ingest_tomas.py.  Times are seconds.                                 *)
(***************************************************************************)
RunsClient == Runs("estadisticas_mqtt") \/ Runs("ingest_tomas_mqtt")

\* reconnect_delay_set(min_delay=1, max_delay=10) in estadisticas.py; paho's
\* defaults, min_delay=1 and max_delay=120, in ingest_tomas.py
ReconnectDelay ==
  IF Runs("estadisticas_mqtt") THEN [min |-> 1, max |-> 10] ELSE [min |-> 1, max |-> 120]

\* paho's delay before the next reconnect attempt: doubled up to the maximum
NextDelay(d) ==
  IF IsNone(d) THEN ReconnectDelay.min ELSE Min(Val(d) * 2, ReconnectDelay.max)

\* c.connect(host, port, keepalive=30), called from main (through
\* start_mqtt_subscriber or make_client) outside any try: a refused or
\* unreachable broker raises and the exception ends the program; on success
\* loop_start() runs the network thread and _on_connect subscribes
ClConnect ==
  /\ RunsClient
  /\ cl_state = "connect"
  /\ IF broker_up
     THEN cl_state' = "connected" /\ cl_subscribed' = TRUE
     ELSE cl_state' = "terminated" /\ cl_subscribed' = FALSE
  /\ UNCHANGED <<estVars, swVars, ingVars, dbVars, snVars, broker_up, cl_delay, proc>>

\* the network thread finds the connection lost
ClLost ==
  /\ RunsClient
  /\ cl_state = "connected"
  /\ ~broker_up
  /\ cl_state' = "waiting"
  /\ cl_subscribed' = FALSE
  /\ UNCHANGED <<estVars, swVars, ingVars, dbVars, snVars, broker_up, cl_delay, proc>>

\* the network thread waits the reconnect delay and reconnects; on success
\* the delay is forgotten and _on_connect subscribes again
ClRetry ==
  /\ RunsClient
  /\ cl_state = "waiting"
  /\ IF broker_up
     THEN cl_state' = "connected" /\ cl_subscribed' = TRUE /\ cl_delay' = None
     ELSE cl_state' = "waiting" /\ cl_subscribed' = FALSE /\ cl_delay' = Some(NextDelay(cl_delay))
  /\ UNCHANGED <<estVars, swVars, ingVars, dbVars, snVars, broker_up, proc>>

\* the broker stops or starts accepting connections
BrokerFlip ==
  /\ RunsClient
  /\ broker_up' = ~broker_up
  /\ UNCHANGED <<estVars, swVars, ingVars, dbVars, snVars, cl_state, cl_delay, cl_subscribed, proc>>

\* main() at its c.connect call, with the broker reachable or not
ClInit ==
  /\ broker_up \in (IF RunsClient THEN BOOLEAN ELSE {TRUE})
  /\ cl_state = IF RunsClient THEN "connect" ELSE "connected"
  /\ cl_delay = None
  /\ cl_subscribed = ~RunsClient

ClNext == ClConnect \/ ClLost \/ ClRetry

(***************************************************************************)
(* The schema of the store: ensure_schema of ingest_tomas.py, of           *)
(* snapshot_db.py and of stats_writer.py, as SQLite executes them.         *)
(***************************************************************************)
TableNames == {"toma_samples", "alert_samples", "pi_samples", "net_samples"}

\* the columns of the CREATE TABLE statements, in their order
IngestTomaCols ==
  <<"ts", "toma", "seq", "ms", "sim", "is_on", "amperaje", "potencia_w", "estado", "rssi">>
IngestAlertCols == Append(IngestTomaCols, "reason")
SnapshotTomaCols == <<"ts", "toma", "seq", "is_on", "amperaje", "potencia_w", "estado", "rssi">>
SnapshotAlertCols == <<"ts", "toma", "seq", "reason", "potencia_w", "rssi", "raw_json">>
PiCols == <<"ts", "cpu_pct", "ram_used_gb", "ram_total_gb", "temp_c", "uptime_s">>
NetCols == <<"ts", "hi_mbps", "med_mbps", "low_mbps", "cap_mbps", "qos_src">>
\* need_toma and need_alert, in the order the loops visit them
need_toma == <<"seq", "ms", "sim", "is_on", "amperaje", "potencia_w", "estado", "rssi">>
need_alert == Append(need_toma, "reason")

Cols(d, t) == Val(d.tables[t]).cols
ColSet(cols) == {cols[i] : i \in 1..Len(cols)}
HasCol(d, t, c) == c \in ColSet(Cols(d, t))

\* CREATE TABLE IF NOT EXISTS t(cols)
CreateTable(d, t, cols) ==
  IF ~IsNone(d.tables[t]) THEN d
  ELSE [d EXCEPT !.tables[t] = Some([cols |-> cols, rows |-> <<>>])]

\* ALTER TABLE t ADD COLUMN c, for each c of cs in turn: every stored row
\* reads NULL in a new column
AlterAddColumns(tb, cs) ==
  [cols |-> tb.cols \o cs,
   rows |-> [i \in 1..Len(tb.rows) |->
               [k \in DOMAIN tb.rows[i] \cup ColSet(cs) |->
                  IF k \in DOMAIN tb.rows[i] THEN tb.rows[i][k] ELSE "NULL"]]]

\* (mutant) every needed column is added without looking at the table's columns
Missing_Unchecked(have, need) == need

\* the columns c of need with `c not in have`, in the order of need
Missing(have, need) == SelectSeq(need, LAMBDA c : c \notin ColSet(have))

\* the loop over need_toma / need_alert: `if c not in have: ALTER TABLE ...`
AddAllMissing(d, t, need) ==
  [d EXCEPT !.tables[t] = Some(AlterAddColumns(Val(@), Missing(Val(@).cols, need)))]

\* CREATE INDEX IF NOT EXISTS name ON t(cols), on the outcome st = [db, raised]
\* of the statements before it: a statement after an exception is not
\* executed, an index name that exists is left alone, and a column the table
\* does not have raises
CreateIndex(st, name, t, cols) ==
  IF st.raised THEN st
  ELSE IF \E x \in st.db.indexes : x.name = name THEN st
  ELSE IF \E i \in 1..Len(cols) : ~HasCol(st.db, t, cols[i]) THEN [st EXCEPT !.raised = TRUE]
  ELSE [st EXCEPT !.db.indexes = @ \cup {[name |-> name, table |-> t, cols |-> cols]}]

\* ingest_tomas.ensure_schema: [db, raised]
ensure_schema_ingest(d) ==
  LET d1 == CreateTable(d, "toma_samples", IngestTomaCols)
      d2 == CreateTable(d1, "alert_samples", IngestAlertCols)
      d3 == AddAllMissing(d2, "toma_samples", need_toma)
      d4 == AddAllMissing(d3, "alert_samples", need_alert)
      s1 == CreateIndex([db |-> d4, raised |-> FALSE], "idx_toma_ts", "toma_samples",
                        <<"toma", "ts">>)
  IN  CreateIndex(s1, "idx_alert_ts", "alert_samples", <<"toma", "ts">>)

\* snapshot_db.ensure_schema, which build_snapshot calls on every snapshot
ensure_schema_snapshot(d) ==
  LET d1 == CreateTable(d, "toma_samples", SnapshotTomaCols)
      s1 == CreateIndex([db |-> d1, raised |-> FALSE], "idx_toma_ts", "toma_samples",
                        <<"toma", "ts">>)
      s2 == IF s1.raised THEN s1
            ELSE [s1 EXCEPT !.db = CreateTable(s1.db, "alert_samples", SnapshotAlertCols)]
      s3 == CreateIndex(s2, "idx_alert_ts", "alert_samples", <<"ts">>)
      s4 == CreateIndex(s3, "idx_alert_toma_ts", "alert_samples", <<"toma", "ts">>)
      s5 == IF s4.raised THEN s4
            ELSE [s4 EXCEPT !.db = CreateTable(s4.db, "pi_samples", PiCols)]
      s6 == CreateIndex(s5, "idx_pi_ts", "pi_samples", <<"ts">>)
      s7 == IF s6.raised THEN s6
            ELSE [s6 EXCEPT !.db = CreateTable(s6.db, "net_samples", NetCols)]
  IN  CreateIndex(s7, "idx_net_ts", "net_samples", <<"ts">>)

\* stats_writer.ensure_schema
ensure_schema_stats(d) ==
  LET d1 == CreateTable(d, "pi_samples", PiCols)
      s1 == CreateIndex([db |-> d1, raised |-> FALSE], "idx_pi_ts", "pi_samples", <<"ts">>)
      s2 == IF s1.raised THEN s1
            ELSE [s1 EXCEPT !.db = CreateTable(s1.db, "net_samples", NetCols)]
  IN  CreateIndex(s2, "idx_net_ts", "net_samples", <<"ts">>)

\* the ensure_schema of a program
ensure_schema(who, d) ==
  IF who = "ingest_tomas" THEN ensure_schema_ingest(d)
  ELSE IF who = "snapshot_db" THEN ensure_schema_snapshot(d)
  ELSE ensure_schema_stats(d)

NoTables == [t \in TableNames |-> None]
\* a stored row of a table with columns cols: every value is the text "v"
RowOver(cols) == [k \in {cols[i] : i \in 1..Len(cols)} |-> "v"]
TableOf(cols) == Some([cols |-> cols, rows |-> <<RowOver(cols)>>])

\* the store files a program may find: none yet; one made and filled under
\* snapshot_db's schema; older files whose outlet tables have fewer columns,
\* one of them without the toma column
OldStores ==
  { [tables |-> NoTables, indexes |-> {}],
    [tables |-> [NoTables EXCEPT !["toma_samples"] = TableOf(SnapshotTomaCols),
                                 !["alert_samples"] = TableOf(SnapshotAlertCols)],
     indexes |-> {[name |-> "idx_alert_ts", table |-> "alert_samples", cols |-> <<"ts">>]}],
    [tables |-> [NoTables EXCEPT !["toma_samples"] = TableOf(<<"ts", "toma", "amperaje">>),
                                 !["alert_samples"] = TableOf(<<"ts", "toma">>)],
     indexes |-> {}],
    [tables |-> [NoTables EXCEPT !["toma_samples"] = TableOf(<<"ts", "seq">>)],
     indexes |-> {}] }

(***************************************************************************)
(* snapshot_db.py: build_snapshot, one call, and the transactions other    *)
(* processes commit on the store meanwhile.  The connection is in          *)
(* autocommit mode (isolation_level=None): every statement is its own      *)
(* transaction.  Times are seconds.                                        *)
(***************************************************************************)
\* a stored row of a table with columns cols: ts, toma and amperaje as given,
\* every other value the text "v"
OutletRow(cols, ts, toma, amperaje) ==
  [k \in ColSet(cols) |->
     IF k = "ts" THEN ts ELSE IF k = "toma" THEN toma
     ELSE IF k = "amperaje" THEN amperaje ELSE "v"]
HostRow(cols, ts) == [k \in ColSet(cols) |-> IF k = "ts" THEN ts ELSE "v"]

\* the store as ingest_tomas and stats_writer make it on a new file
WritersSchema ==
  ensure_schema_stats(ensure_schema_ingest([tables |-> NoTables, indexes |-> {}]).db).db
\* the store as ingest_tomas alone makes it
IngestSchema == ensure_schema_ingest([tables |-> NoTables, indexes |-> {}]).db

\* the rows of table t
Rows(d, t) == Val(d.tables[t]).rows
WithRows(d, t, rows) == [d EXCEPT !.tables[t] = Some([Val(@) EXCEPT !.rows = rows])]

\* the store files build_snapshot may find, times counted from SnStart: a file
\* with no table; the writers' store after a while (toma1 last heard 15 s ago,
\* one of its rows stamped earlier than the row before it, toma2 10 s ago;
\* alerts 121, 120, 5, 5 and 0 s ago; three host and network rows); the
\* ingestor's store with one outlet heard 11 s ago
SnapshotStores ==
  { [tables |-> NoTables, indexes |-> {}],
    WithRows(WithRows(WithRows(WithRows(WritersSchema,
      "toma_samples",
        << OutletRow(IngestTomaCols, SnStart - 20, S_toma1, 1),
           OutletRow(IngestTomaCols, SnStart - 10, S_toma2, 2),
           OutletRow(IngestTomaCols, SnStart - 15, S_toma1, 3),
           OutletRow(IngestTomaCols, SnStart - 17, S_toma1, 4) >>),
      "alert_samples",
        << OutletRow(IngestAlertCols, SnStart - 121, S_toma1, 1),
           OutletRow(IngestAlertCols, SnStart - 120, S_toma1, 2),
           OutletRow(IngestAlertCols, SnStart - 5, S_toma2, 3),
           OutletRow(IngestAlertCols, SnStart - 5, S_toma1, 4),
           OutletRow(IngestAlertCols, SnStart, S_toma1, 5) >>),
      "net_samples",
        << HostRow(NetCols, SnStart - 1), HostRow(NetCols, SnStart - 2),
           HostRow(NetCols, SnStart) >>),
      "pi_samples",
        << HostRow(PiCols, SnStart - 1), HostRow(PiCols, SnStart) >>),
    WithRows(IngestSchema, "toma_samples",
        << OutletRow(IngestTomaCols, SnStart - 11, S_toma2, 1) >>) }

\* ORDER BY ts DESC: of two rows with the same ts the one stored later comes
\* first (the backward scan of the table's index on ts)
OrderByTsDesc(rows) ==
  LET n == Len(rows)
      before(i) == {j \in 1..n : \/ rows[j]["ts"] > rows[i]["ts"]
                                 \/ rows[j]["ts"] = rows[i]["ts"] /\ j > i}
  IN  [k \in 1..n |-> rows[CHOOSE i \in 1..n : Cardinality(before(i)) = k - 1]]
\* LIMIT n
Limit(q, n) == SubSeq(q, 1, Min(n, Len(q)))
\* q[::-1]
Reverse(q) == [k \in 1..Len(q) |-> q[Len(q) + 1 - k]]
\* WHERE toma = tn
OfToma(rows, tn) == SelectSeq(rows, LAMBDA r : r["toma"] = tn)

\* SELECT * FROM t ORDER BY ts DESC LIMIT 1
SelectLatest(rows) == Limit(OrderByTsDesc(rows), 1)
\* (mutant) the rows are left in the order of the query, newest first
SelectSeries_NoReverse(rows, n) == Limit(OrderByTsDesc(rows), n)

\* SELECT ... FROM t ORDER BY ts DESC LIMIT n, then [::-1]
SelectSeries(rows, n) == Reverse(Limit(OrderByTsDesc(rows), n))

\* SELECT DISTINCT toma FROM toma_samples, then `if t.get("toma")`
toma_names(d) ==
  {r["toma"] : r \in {Rows(d, "toma_samples")[i] : i \in 1..Len(Rows(d, "toma_samples"))}}
    \ {<<>>}

\* the loop that fills latest_map: tn -> its latest row
LatestPerToma(d) ==
  [tn \in toma_names(d) |-> SelectLatest(OfToma(Rows(d, "toma_samples"), tn))[1]]

\* SELECT ts, toma, amperaje, potencia_w, estado, rssi
SeriesCols == {"ts", "toma", "amperaje", "potencia_w", "estado", "rssi"}
Project(r) == [k \in SeriesCols |-> r[k]]
\* the loop that fills series_per_toma
SeriesPerToma(d, toma_points) ==
  [tn \in toma_names(d) |->
     LET pts == SelectSeries(OfToma(Rows(d, "toma_samples"), tn), toma_points)
     IN  [k \in 1..Len(pts) |-> Project(pts[k])]]

\* (mutant) an outlet is online only while its age is below the TTL
Online_Strict(age, ttl) == IF age < ttl THEN 1 ELSE 0

\* 1 if age <= ttl else 0
Online(age, ttl) == IF age <= ttl THEN 1 ELSE 0

\* the loop that fills by_ttl from latest_map
by_ttl(lm, now, ttl) ==
  [tn \in DOMAIN lm |->
     LET ts == lm[tn]["ts"]
         age == IF ts # 0 THEN now - ts ELSE 10^9
     IN  [ts |-> ts, age_sec |-> age, online |-> Online(age, ttl),
          amperaje |-> lm[tn]["amperaje"], potencia_w |-> lm[tn]["potencia_w"],
          estado |-> lm[tn]["estado"], rssi |-> lm[tn]["rssi"]]]

win == 120
\* (mutant) the window leaves out the rows stamped exactly now - win
InWindow_Open(ts, now) == ts > now - win

\* WHERE ts >= now - win
InWindow(ts, now) == ts >= now - win

\* SELECT COUNT(*) FROM alert_samples WHERE ts >= now - win
CountAlerts(d, now) ==
  Len(SelectSeq(Rows(d, "alert_samples"), LAMBDA r : InWindow(r["ts"], now)))

\* SELECT ts, COUNT(*) AS n FROM alert_samples WHERE ts >= now - win
\* GROUP BY ts ORDER BY ts ASC
AlertSeries(d, now) ==
  LET rows == SelectSeq(Rows(d, "alert_samples"), LAMBDA r : InWindow(r["ts"], now))
      tss == {rows[i]["ts"] : i \in 1..Len(rows)}
      nth(k) == CHOOSE t \in tss : Cardinality({u \in tss : u < t}) = k - 1
  IN  [k \in 1..Cardinality(tss) |->
         [ts |-> nth(k), n |-> Len(SelectSeq(rows, LAMBDA r : r["ts"] = nth(k)))]]

\* out["tables"]["pi_samples"] and out["tables"]["net_samples"]
NetTables(d, call) ==
  [pi_samples |-> [latest |-> SelectLatest(Rows(d, "pi_samples"))],
   net_samples |-> [latest |-> SelectLatest(Rows(d, "net_samples")),
                    series |-> SelectSeries(Rows(d, "net_samples"), call.max_rows_per_table)]]

\* `out` as build_snapshot sets it up
EmptySnapshot(call) ==
  [now_ts |-> call.now, ttl_sec |-> call.ttl_sec, tables |-> <<>>, derived |-> <<>>,
   alerts |-> [count_120s |-> 0, series |-> <<>>]]

\* (mutant) build_snapshot connects without looking for the file
StoreFound_Unchecked == TRUE

\* os.path.exists(db)
StoreFound == db_exists

\* build_snapshot up to its first query: now, out, the test for the store
\* file, _connect (sqlite3.connect makes the file if there is none) and
\* ensure_schema
SnCall ==
  /\ Runs("build_snapshot")
  /\ sn_pc = "idle"
  /\ \E a \in SnapshotArgs :
       LET call == [now |-> SnStart, max_rows_per_table |-> a.max_rows_per_table,
                    toma_points |-> a.toma_points, ttl_sec |-> a.ttl_sec]
           r == ensure_schema_snapshot(db)
       IN  /\ sn_call' = Some(call)
           /\ out' = Some(EmptySnapshot(call))
           /\ IF ~StoreFound
              THEN /\ sn_pc' = "done"
                   /\ UNCHANGED <<db, db_log, db_exists, sn_states>>
              ELSE /\ db_exists' = TRUE
                   /\ db' = r.db
                   /\ db_log' = Append(db_log, [who |-> "snapshot_db", raised |-> r.raised])
                   /\ sn_pc' = IF r.raised THEN "raised" ELSE "net"
                   /\ sn_states' = {r.db}
  /\ UNCHANGED <<estVars, swVars, ingVars, clVars, latest_map, n_writes, sn_read, tomas_detail, proc>>

\* the latest rows of pi_samples and net_samples and the network series
SnNet ==
  /\ Runs("build_snapshot")
  /\ sn_pc = "net"
  /\ out' = Some([Val(out) EXCEPT !.tables = NetTables(db, Val(sn_call))])
  /\ sn_read' = Append(sn_read, db)
  /\ sn_pc' = "latest"
  /\ UNCHANGED <<estVars, swVars, ingVars, clVars, dbVars, sn_call, latest_map, n_writes, sn_states, tomas_detail, proc>>

\* toma_names and latest_map
SnLatest ==
  /\ Runs("build_snapshot")
  /\ sn_pc = "latest"
  /\ latest_map' = Some(LatestPerToma(db))
  /\ sn_read' = Append(sn_read, db)
  /\ sn_pc' = "series"
  /\ UNCHANGED <<estVars, swVars, ingVars, clVars, dbVars, sn_call, out, n_writes, sn_states, tomas_detail, proc>>

\* series_per_toma, out["tables"]["toma_samples"] and the TTL map.  The names
\* are those of the DISTINCT query before latest_map; toma_samples is never
\* purged, so every one of them still has rows
SnSeries ==
  /\ Runs("build_snapshot")
  /\ sn_pc = "series"
  /\ LET call == Val(sn_call)
         series == [tn \in DOMAIN Val(latest_map) |-> SeriesPerToma(db, call.toma_points)[tn]]
     IN  out' = Some([Val(out) EXCEPT
                 !.tables = [pi_samples |-> @.pi_samples, net_samples |-> @.net_samples,
                             toma_samples |-> [latest_per_toma |-> Val(latest_map),
                                               series_per_toma |-> series]],
                 !.derived = [tomas_by_ttl |-> by_ttl(Val(latest_map), call.now, call.ttl_sec)]])
  /\ sn_read' = Append(sn_read, db)
  /\ sn_pc' = "count"
  /\ UNCHANGED <<estVars, swVars, ingVars, clVars, dbVars, sn_call, latest_map, n_writes, sn_states, tomas_detail, proc>>

\* count_120 (kept in out["alerts"] until the series is there too)
SnCount ==
  /\ Runs("build_snapshot")
  /\ sn_pc = "count"
  /\ out' = Some([Val(out) EXCEPT !.alerts.count_120s = CountAlerts(db, Val(sn_call).now)])
  /\ sn_read' = Append(sn_read, db)
  /\ sn_pc' = "alerts"
  /\ UNCHANGED <<estVars, swVars, ingVars, clVars, dbVars, sn_call, latest_map, n_writes, sn_states, tomas_detail, proc>>

\* the alert series, out["alerts"], out["tables"]["alert_samples"], close, return
SnAlerts ==
  /\ Runs("build_snapshot")
  /\ sn_pc = "alerts"
  /\ LET series == AlertSeries(db, Val(sn_call).now)
         count_120 == Val(out).alerts.count_120s
     IN  out' = Some([Val(out) EXCEPT
                 !.alerts = [count_120s |-> count_120, series |-> series],
                 !.tables = [pi_samples |-> @.pi_samples, net_samples |-> @.net_samples,
                             toma_samples |-> @.toma_samples,
                             alert_samples |-> [count_120s |-> count_120,
                                                series_120s |-> series]]])
  /\ sn_read' = Append(sn_read, db)
  /\ sn_pc' = "done"
  /\ UNCHANGED <<estVars, swVars, ingVars, clVars, dbVars, sn_call, latest_map, n_writes, sn_states, tomas_detail, proc>>

\* when the other processes stamp the rows they insert during the call
WriteTimes == {SnStart, SnStart + 1}
\* the outlets of those rows: one known to the store, one new
WriteTomas == {S_toma1, <<"t", "o", "m", "a", "4">>}

\* the store after a transaction of another process
Committed(d) ==
  /\ sn_pc \in {"net", "latest", "series", "count", "alerts"}
  /\ n_writes < MaxWrites
  /\ db' = d
  /\ sn_states' = sn_states \cup {d}
  /\ n_writes' = n_writes + 1
  /\ UNCHANGED <<estVars, swVars, ingVars, clVars, db_log, db_exists, sn_pc, sn_call, out,
                 latest_map, sn_read, tomas_detail, proc>>

\* the ingestor commits the INSERT of insert_telem
StoreInsertTelem ==
  /\ Runs("build_snapshot")
  /\ \E ts \in WriteTimes, toma \in WriteTomas :
       Committed(WithRows(db, "toma_samples",
                   InsertRow(Rows(db, "toma_samples"),
                             OutletRow(Cols(db, "toma_samples"), ts, toma, 9))))

\* the ingestor commits the INSERT of insert_alert
StoreInsertAlert ==
  /\ Runs("build_snapshot")
  /\ \E ts \in WriteTimes :
       Committed(WithRows(db, "alert_samples",
                   InsertRow(Rows(db, "alert_samples"),
                             OutletRow(Cols(db, "alert_samples"), ts, S_toma1, 9))))

\* the sampler commits the statements of one pass: its two INSERTs and DELETEs
StoreSamplerPass ==
  /\ Runs("build_snapshot")
  /\ \E ts \in WriteTimes :
       LET pi == Purge(InsertRow(Rows(db, "pi_samples"), HostRow(PiCols, ts)), ts - 1800)
           net == Purge(InsertRow(Rows(db, "net_samples"), HostRow(NetCols, ts)), ts - 1800)
       IN  Committed(WithRows(WithRows(db, "pi_samples", pi), "net_samples", net))

\* dashboard_server.py: TTL_SEC and _EXPECTED_TOMAS, as configured by default
TTL_SEC == 10
S_toma3 == <<"t", "o", "m", "a", "3">>
EXPECTED_TOMAS == {S_toma1, S_toma2, S_toma3}

\* str.startswith("toma")
StartsWithToma(k) == Len(k) >= 4 /\ SubSeq(k, 1, 4) = <<"t", "o", "m", "a">>

\* (mutant) the age of an outlet without timestamp is counted from time 0
DetailAge_NoSentinel(ts, now) == now - ts

\* now - ts if ts else 10**9
DetailAge(ts, now) == IF ts # 0 THEN now - ts ELSE 10^9

\* _tomas_detail_from_ttl(snap): the entry of every key, by key
tomas_detail_from_ttl(snap) ==
  LET now == snap.now_ts
      ttl == IF snap.ttl_sec # 0 THEN snap.ttl_sec ELSE TTL_SEC
      has == "tomas_by_ttl" \in DOMAIN snap.derived
      mpkeys == IF has THEN DOMAIN snap.derived.tomas_by_ttl ELSE {}
      keys == EXPECTED_TOMAS \cup {lower(k) : k \in {x \in mpkeys : StartsWithToma(lower(x))}}
  IN  [k \in keys |->
         LET seen == k \in mpkeys
             ts == IF seen THEN snap.derived.tomas_by_ttl[k].ts ELSE 0
             age_sec == IF seen THEN snap.derived.tomas_by_ttl[k].age_sec ELSE 0
             age == IF age_sec # 0 THEN age_sec ELSE DetailAge(ts, now)
         IN  [toma |-> k, online |-> ts # 0 /\ age <= ttl, age_sec |-> age, ts |-> ts]]

\* api_state after build_snapshot has returned: "tomas_detail"
SnDetail ==
  /\ Runs("build_snapshot")
  /\ sn_pc = "done"
  /\ tomas_detail' = Some(tomas_detail_from_ttl(Val(out)))
  /\ sn_pc' = "shown"
  /\ UNCHANGED <<estVars, swVars, ingVars, clVars, dbVars, sn_call, out, latest_map, n_writes,
                 sn_read, sn_states, proc>>

SnInit ==
  /\ tomas_detail = None
  /\ sn_pc = "idle"
  /\ sn_call = None
  /\ out = None
  /\ latest_map = None
  /\ n_writes = 0
  /\ sn_read = <<>>
  /\ sn_states = {}

SnNext ==
  \/ SnCall
  \/ SnNet
  \/ SnLatest
  \/ SnSeries
  \/ SnCount
  \/ SnAlerts
  \/ SnDetail
  \/ StoreInsertTelem
  \/ StoreInsertAlert
  \/ StoreSamplerPass

\* a program starts (or build_snapshot runs) and calls its ensure_schema
EnsureSchema ==
  /\ Runs("ensure_schema")
  /\ Len(db_log) < MaxSchemaCalls
  /\ \E who \in {"ingest_tomas", "snapshot_db", "stats_writer"} :
       LET r == ensure_schema(who, db)
       IN  /\ db' = r.db
           /\ db_log' = Append(db_log, [who |-> who, raised |-> r.raised])
  /\ UNCHANGED <<estVars, swVars, ingVars, clVars, snVars, db_exists, proc>>

DbInit ==
  /\ db \in (IF Runs("ensure_schema") THEN OldStores
            ELSE IF Runs("build_snapshot") THEN SnapshotStores
            ELSE {[tables |-> NoTables, indexes |-> {}]})
  /\ db_exists \in (IF Runs("build_snapshot") /\ db.tables = NoTables THEN BOOLEAN ELSE {TRUE})
  /\ db_log = <<>>

(***************************************************************************)
(* The programs are separate processes with no memory in common; a         *)
(* behaviour follows one of them.                                          *)
(***************************************************************************)
Init ==
  /\ proc \in {"estadisticas", "stats_writer", "ingest_tomas",
               "estadisticas_mqtt", "ingest_tomas_mqtt", "ensure_schema",
               "build_snapshot"}
  /\ EstInit(IF Runs("estadisticas") THEN HostReadings
             ELSE {[cpu |-> <<100, 50>>, net |-> <<0, 0>>, tc |-> <<>>]})
  /\ SwInit
  /\ IngInit
  /\ ClInit
  /\ DbInit
  /\ SnInit

Next == EstNext \/ SwNext \/ IngNext \/ ClNext \/ BrokerFlip \/ EnsureSchema \/ SnNext

Spec == Init /\ [][Next]_vars

\* the threads of a client keep running while they have something to do
FairSpec == Spec /\ WF_vars(ClNext)

(***************************************************************************)
(* Properties                                                              *)
(***************************************************************************)

\* a pass of estadisticas.main has published and the next has not begun
EstPublished == pc_main = "sleep" /\ ~IsNone(payload_net)
\* the step of TickSample / of TickPublish
EstSampleStep == pc_main = "sleep" /\ pc_main' = "reset"
EstPublishStep == pc_main = "reset" /\ pc_main' = "sleep"
\* some shaper-derived class rate of the pass is not None
ShaperRateAvailable == ~IsNone(hi_tc) \/ ~IsNone(med_tc) \/ ~IsNone(low_tc)

\* a pass of stats_writer.main
SwStep == sw_ticks' = sw_ticks + 1
\* the rate stats_writer stored for class cid in a net_samples row
RowRate(row, cid) ==
  IF cid = CLASS_HIGH THEN row.hi_mbps ELSE IF cid = CLASS_MED THEN row.med_mbps ELSE row.low_mbps

\* C1: whenever a class counter read at a pass is below the one read before it,
\* the rate computed for the class in that pass is exactly 0 and not None, by
\* rate_mbps in estadisticas.py and by calc in stats_writer.py.
EstZeroOnDecrease(prev, cur, rate) ==
  (~IsNone(prev) /\ ~IsNone(cur) /\ Val(cur) < Val(prev)) => rate = Some(0)
C1_ZeroRateOnCounterDecrease ==
  [][ /\ EstSampleStep =>
           /\ EstZeroOnDecrease(last_hi, last_hi', hi_tc')
           /\ EstZeroOnDecrease(last_med, last_med', med_tc')
           /\ EstZeroOnDecrease(last_low, last_low', low_tc')
      /\ SwStep =>
           \A cid \in {CLASS_HIGH, CLASS_MED, CLASS_LOW} :
              (cid \in DOMAIN rx /\ cid \in DOMAIN rx' /\ rx'[cid] < rx[cid])
                 => RowRate(Last(net_samples'), cid) = 0 ]_vars

\* C2: when some shaper-derived class rate of a pass is not None, the published
\* split is tagged "tc", a high or medium class without a rate is exactly 0,
\* and low is its own shaper rate if it has one and max(total - high - medium, 0)
\* otherwise; the payload carries these values rounded to four decimals.
C2_ShaperAuthoritative ==
  (EstPublished /\ ShaperRateAvailable) =>
     /\ qos_src = "tc"
     /\ Val(payload_net).qos_src = "tc"
     /\ (IsNone(hi_tc) => hi_mbps = 0 /\ Val(payload_net).hi_mbps = 0)
     /\ (IsNone(med_tc) => med_mbps = 0 /\ Val(payload_net).med_mbps = 0)
     /\ low_mbps = IF ~IsNone(low_tc) THEN Val(low_tc)
                   ELSE Max(total_mbps - hi_mbps - med_mbps, 0)
     /\ Val(payload_net).low_mbps = RoundTo(low_mbps, 100)

\* only the high class was measured in the interval; low absorbed the rest
C2_Witness ==
  /\ EstPublished
  /\ ~IsNone(hi_tc) /\ IsNone(med_tc) /\ IsNone(low_tc)
  /\ qos_src = "tc"
  /\ hi_mbps = 1000000 /\ med_mbps = 0 /\ low_mbps = 4000000

C4_RatesNonNegative ==
  /\ EstPublished =>
        /\ hi_mbps >= 0 /\ med_mbps >= 0 /\ low_mbps >= 0
        /\ Val(payload_net).hi_mbps >= 0
        /\ Val(payload_net).med_mbps >= 0
        /\ Val(payload_net).low_mbps >= 0
        /\ qos_src = "tc" =>
              /\ IsNone(hi_tc) => hi_mbps = 0
              /\ IsNone(med_tc) => med_mbps = 0
              /\ IsNone(low_tc) => low_mbps = Max(total_mbps - hi_mbps - med_mbps, 0)
  /\ \A i \in 1..Len(net_samples) :
        /\ net_samples[i].hi_mbps >= 0
        /\ net_samples[i].med_mbps >= 0
        /\ net_samples[i].low_mbps >= 0

\* the shaper measured more on the high class than the interface total, and
\* the unmeasured low class was clamped to 0
C4_Witness ==
  /\ EstPublished
  /\ qos_src = "tc"
  /\ IsNone(low_tc)
  /\ total_mbps - hi_mbps - med_mbps < 0
  /\ low_mbps = 0

\* the bytes of a message that has reached _on_message and is not yet counted
InFlight(k) == IF ~IsNone(msg) /\ BytesKey(Val(msg).topic) = k THEN Val(msg).nbytes ELSE 0

\* C5: for telemetry and for alert, the bytes delivered to _on_message so far
\* minus the bytes read by the ticks so far (owed) are exactly the bytes in the
\* accumulator plus those of a message still waiting for the lock; between a
\* tick's read and its reset the accumulator holds only bytes already read.
C5_NoLostOrDoubleCount ==
  \A k \in {"bytes_telem", "bytes_alert"} :
     owed[k] = InFlight(k) + (IF pc_main = "reset" THEN 0 ELSE latest_toma1[k])

\* a telemetry message arrives while the tick is between its read and its
\* reset, after an earlier telemetry message was read by that tick
C5_Witness ==
  /\ pc_main = "reset"
  /\ b_telem > 0
  /\ ~IsNone(msg) /\ Val(msg).topic = TOPIC_TOMA1_TELEM
  /\ owed["bytes_telem"] = Val(msg).nbytes

\* C6: the source published by a pass is "tc" exactly when that pass computed a
\* shaper-derived rate, and "mqtt" otherwise, whatever was published before.
C6_SourcePerTick ==
  [][EstPublishStep =>
       qos_src' = (IF ShaperRateAvailable THEN "tc" ELSE "mqtt")]_vars

\* the shaper was used, then the message volume, then the shaper again
C6_Witness == pc_main = "sleep" /\ qos_trail = <<"tc", "mqtt", "tc">>
\* 100 * (total_delta - idle_delta) / total_delta clamped into [0, 100], and 0
\* when total_delta <= 0, in milli-percent
CpuPctClamped(t1, t0v) ==
  LET dt == t1[1] - t0v[1]
      di == t1[2] - t0v[2]
  IN  IF dt > 0 THEN Max(0, Min(100000, (100000 * (dt - di)) \div dt)) ELSE 0

\* C7: for every two successive CPU readings, the cpu_pct of the pass is the
\* clamped quotient above, in estadisticas.py (computed, then published
\* rounded to one decimal) and in stats_writer.py (stored); it is never below
\* 0 or above 100.
C7_CpuPctClamped ==
  [][ /\ EstSampleStep => cpu_pct' = CpuPctClamped(t0', t0)
      /\ EstPublishStep =>
            /\ Val(payload_pi').cpu_pct >= 0
            /\ Val(payload_pi').cpu_pct <= 100000
      /\ (SwStep /\ ~IsNone(prev_cpu)) =>
            Last(pi_samples').cpu_pct = CpuPctClamped(Val(prev_cpu'), Val(prev_cpu)) ]_vars

\* the rows of the two outlet tables, with the rows built and not yet inserted
OutletRows ==
  {toma_samples[i] : i \in 1..Len(toma_samples)}
    \cup {alert_samples[i] : i \in 1..Len(alert_samples)}
TelemRows ==
  {toma_samples[i] : i \in 1..Len(toma_samples)}
    \cup (IF IsNone(telem_row) THEN {} ELSE {Val(telem_row)})

\* C8: no row of toma_samples or alert_samples has a toma in RESERVED_IDS.
C8_NoReservedRows == \A r \in OutletRows : r.toma \notin RESERVED_IDS

\* an alert for toma1 was stored, then an alert on the topic of toma1 whose
\* payload names " PI " was dropped
C8_Witness ==
  /\ Len(alert_samples) = 1
  /\ pc_alert = "idle"
  /\ ~IsNone(last_msg)
  /\ Val(last_msg).kind = "alert"
  /\ Val(last_msg).id = S_toma1
  /\ Val(last_msg).doc.toma = JStr(S_PI_padded)
  /\ ~Val(last_msg).accepted

\* C9: no row of toma_samples, inserted or about to be, comes from a telemetry
\* message whose topic entity is a reserved identifier (in any letter case).
C9_ReservedTopicNoRow == \A r \in TelemRows : lower(r.via) \notin RESERVED_IDS

\* telemetry on safegrid/Display/telemetry naming " Toma2 " was dropped
C9_Witness ==
  /\ ~IsNone(last_msg)
  /\ Val(last_msg).kind = "telem"
  /\ Val(last_msg).id = S_Display
  /\ Val(last_msg).doc.toma = JStr(S_Toma2_padded)
  /\ ~Val(last_msg).accepted
  /\ pc_telem = "idle"
  /\ toma_samples = <<>>

\* C10: the toma of every row of toma_samples and alert_samples equals its own
\* trimmed, lowercased form.
C10_RowsNormalized == \A r \in OutletRows : r.toma = lower(strip(r.toma))

\* telemetry naming " Toma2 " was stored under toma2
C10_Witness ==
  /\ ~IsNone(last_msg)
  /\ Val(last_msg).kind = "telem"
  /\ Val(last_msg).doc.toma = JStr(S_Toma2_padded)
  /\ Val(last_msg).accepted
  /\ Len(toma_samples) = 1
  /\ toma_samples[1].toma = S_toma2
\* a message has just been delivered to on_telem or on_alert
Delivered == n_ing' = n_ing + 1
\* the row the handler has built from the message just delivered
BuiltRow(kind, trow, arow) == IF kind = "telem" THEN trow ELSE arow
\* the identifier field of a payload: toma, else id
PayloadField(doc) == IF Truthy(doc.toma) THEN doc.toma ELSE doc.id
\* the payload is an object carrying an identifier that is not reserved
CarriesOutletId(doc) ==
  /\ doc.json = "dict"
  /\ Truthy(doc.toma) \/ Truthy(doc.id)
  /\ lower(strip(PyStr(PayloadField(doc)))) \notin RESERVED_IDS

\* C11 as stated: every message whose payload carries a non-reserved
\* identifier is accepted and its row is built under the (normalized) payload
\* identifier, whatever the topic's entity segment is.
C11_PayloadIdWins_AnyTopic ==
  [][ (Delivered /\ CarriesOutletId(Val(last_msg').doc)) =>
        /\ Val(last_msg').accepted
        /\ ~IsNone(BuiltRow(Val(last_msg').kind, telem_row', alert_row'))
        /\ Val(BuiltRow(Val(last_msg').kind, telem_row', alert_row')).toma
              = lower(strip(PyStr(PayloadField(Val(last_msg').doc)))) ]_vars

\* C11: every message whose payload carries a non-reserved identifier, and
\* whose topic has an entity segment that, for telemetry, is not a reserved
\* identifier, is accepted and its row is built under the (normalized) payload
\* identifier, not under the topic's.
C11_PayloadIdWins ==
  [][ ( /\ Delivered
        /\ CarriesOutletId(Val(last_msg').doc)
        /\ Val(last_msg').id # <<>>
        /\ Val(last_msg').kind = "telem" => lower(Val(last_msg').id) \notin RESERVED_IDS ) =>
        /\ Val(last_msg').accepted
        /\ ~IsNone(BuiltRow(Val(last_msg').kind, telem_row', alert_row'))
        /\ Val(BuiltRow(Val(last_msg').kind, telem_row', alert_row')).toma
              = lower(strip(PyStr(PayloadField(Val(last_msg').doc)))) ]_vars

\* an alert on safegrid/pi/alert whose payload names " Toma2 " is stored
\* under toma2
C11_Witness ==
  /\ ~IsNone(last_msg)
  /\ Val(last_msg).kind = "alert"
  /\ Val(last_msg).id = S_pi
  /\ Val(last_msg).doc.toma = JStr(S_Toma2_padded)
  /\ Len(alert_samples) = 1
  /\ alert_samples[1].toma = S_toma2
  /\ alert_samples[1].via = S_pi

\* the message just delivered is inserted by its handler: it passed the
\* handler's tests and its values can be bound
Accepted(m) == m.accepted /\ m.doc.estado # "object"

\* C12: a delivered message changes no table by itself; an accepted one leaves
\* exactly one insert pending in its own thread and a rejected one leaves
\* none; the pending insert of a telemetry message appends exactly its one row
\* to toma_samples and leaves alert_samples unchanged, that of an alert
\* appends exactly its one row to alert_samples and leaves toma_samples
\* unchanged, and no other step changes a table.
C12_OneWritePerAccepted ==
  [][ /\ Delivered =>
           /\ UNCHANGED <<toma_samples, alert_samples>>
           /\ Val(last_msg').kind = "telem" =>
                 /\ UNCHANGED <<pc_alert, alert_row>>
                 /\ Accepted(Val(last_msg')) <=>
                       (pc_telem' = "insert" /\ ~IsNone(telem_row') /\ Bindable(Val(telem_row')))
                 /\ ~Val(last_msg').accepted => (pc_telem' = "idle" /\ IsNone(telem_row'))
           /\ Val(last_msg').kind = "alert" =>
                 /\ UNCHANGED <<pc_telem, telem_row>>
                 /\ Accepted(Val(last_msg')) <=>
                       (pc_alert' = "insert" /\ ~IsNone(alert_row') /\ Bindable(Val(alert_row')))
                 /\ ~Val(last_msg').accepted => (pc_alert' = "idle" /\ IsNone(alert_row'))
      /\ (pc_telem = "locked" /\ pc_telem' # "locked") =>
           /\ toma_samples' = IF Bindable(Val(telem_row))
                              THEN Append(toma_samples, Val(telem_row)) ELSE toma_samples
           /\ IsNone(telem_row')
           /\ UNCHANGED alert_samples
      /\ (pc_alert = "locked" /\ pc_alert' # "locked") =>
           /\ alert_samples' = IF Bindable(Val(alert_row))
                               THEN Append(alert_samples, Val(alert_row)) ELSE alert_samples
           /\ IsNone(alert_row')
           /\ UNCHANGED toma_samples
      /\ toma_samples' # toma_samples => (pc_telem = "locked" /\ pc_telem' # "locked")
      /\ alert_samples' # alert_samples => (pc_alert = "locked" /\ pc_alert' # "locked") ]_vars

\* two messages were delivered, a telemetry one that was accepted and stored
\* and an alert that was rejected
C12_Witness ==
  /\ n_ing = 2
  /\ Len(toma_samples) = 1
  /\ alert_samples = <<>>
  /\ pc_telem = "idle" /\ pc_alert = "idle"
  /\ Val(last_msg).kind = "alert"
  /\ ~Val(last_msg).accepted
\* the message is well formed and names no reserved identifier, in its topic
\* or in its payload, and its values can be stored
WellFormedOutletMsg(m) ==
  /\ ~Malformed(m.id, m.doc)
  /\ lower(m.id) \notin RESERVED_IDS
  /\ lower(strip(PyStr(PayloadId(m.doc, m.id)))) \notin RESERVED_IDS
  /\ m.doc.estado # "object"

\* C13: no step leaves a client thread dead; a malformed message (no entity
\* segment, invalid JSON, JSON that is no object) changes no table and leaves
\* no insert pending; and every well-formed, non-reserved message delivered
\* after a malformed one is accepted and its row handed to the insert.
C13_BadMessageNeverStops ==
  [][ /\ pc_telem' # "dead" /\ pc_alert' # "dead"
      /\ (Delivered /\ Malformed(Val(last_msg').id, Val(last_msg').doc)) =>
            /\ UNCHANGED <<toma_samples, alert_samples, telem_row, alert_row>>
            /\ UNCHANGED <<pc_telem, pc_alert, writer_lock>>
            /\ ~Val(last_msg').accepted
      /\ (Delivered /\ n_malformed >= 1 /\ WellFormedOutletMsg(Val(last_msg'))) =>
            /\ Val(last_msg').accepted
            /\ ~IsNone(BuiltRow(Val(last_msg').kind, telem_row', alert_row'))
            /\ (IF Val(last_msg').kind = "telem" THEN pc_telem' ELSE pc_alert') = "insert" ]_vars

\* a malformed message was dropped, and the well-formed telemetry message
\* delivered after it is stored
C13_Witness ==
  /\ n_ing = 2 /\ n_malformed = 1
  /\ Val(last_msg).kind = "telem"
  /\ WellFormedOutletMsg(Val(last_msg))
  /\ pc_telem = "idle" /\ pc_alert = "idle"
  /\ Len(toma_samples) = 1
  /\ alert_samples = <<>>
\* the subscriber of estadisticas has just stored the message it was handling
EstStored == ~IsNone(msg) /\ IsNone(msg')
\* json.loads is reached for the message the ingestor was just delivered
ParseAttempted(m) ==
  /\ m.id # <<>>
  /\ m.kind = "telem" => lower(m.id) \notin RESERVED_IDS

\* C14: every message whose payload fails to parse is kept as opaque text or
\* at least logged: in estadisticas it is stored under its topic's key of
\* latest_toma1 as the raw text; in the ingestor its handling builds a row
\* from it or prints.
C14_UnparsedNeverDroppedSilently ==
  [][ /\ (EstStored /\ Val(msg).data = "raw") =>
            latest_toma1'[DataKey(Val(msg).topic)] \in {"raw", "text"}
      /\ (Delivered /\ Val(last_msg').doc.json = "invalid" /\ ParseAttempted(Val(last_msg'))) =>
            \/ ~IsNone(BuiltRow(Val(last_msg').kind, telem_row', alert_row'))
            \/ last_print' # last_print ]_vars
\* C15: the client never ends the program, its reconnect delay never exceeds
\* the configured maximum, and once the broker stays reachable, whether it was
\* unreachable at the start or later, the client ends up connected and
\* subscribed for good.
C15_ReconnectsForever ==
  /\ [](cl_state # "terminated")
  /\ [](~IsNone(cl_delay) => Val(cl_delay) <= ReconnectDelay.max)
  /\ (<>[]broker_up => <>[](cl_state = "connected" /\ cl_subscribed))
\* a program has just called its ensure_schema
SchemaStep == Len(db_log') = Len(db_log) + 1
\* the columns of every table of store d are distinct
NoDuplicateColumn(d) ==
  \A t \in TableNames :
     ~IsNone(d.tables[t]) => Cardinality(ColSet(Cols(d, t))) = Len(Cols(d, t))

\* C16: for each of the three ensure_schema functions and every store, calling
\* it again on the store it has left gives the same tables, columns, indexes
\* and rows, and the same outcome, and no table has a column twice.
C16_EnsureSchemaIdempotent ==
  [][ SchemaStep =>
        /\ ensure_schema(Last(db_log').who, db').db = db'
        /\ ensure_schema(Last(db_log').who, db').raised = Last(db_log').raised
        /\ NoDuplicateColumn(db') ]_vars

\* the ingestor's ensure_schema ran twice on an older store whose outlet
\* tables it had to extend, and the stored row is still there
C16_Witness ==
  /\ Len(db_log) = 2
  /\ db_log[1] = [who |-> "ingest_tomas", raised |-> FALSE]
  /\ db_log[2] = [who |-> "ingest_tomas", raised |-> FALSE]
  /\ Cols(db, "toma_samples") = <<"ts", "toma", "amperaje">> \o
        <<"seq", "ms", "sim", "is_on", "potencia_w", "estado", "rssi">>
  /\ Len(Val(db.tables["toma_samples"]).rows) = 1

\* every table of store d is in store e with at least its columns, and every
\* row of it is in e, in its place, with every value it had
Preserved(d, e) ==
  \A t \in TableNames :
     ~IsNone(d.tables[t]) =>
        /\ ~IsNone(e.tables[t])
        /\ ColSet(Cols(d, t)) \subseteq ColSet(Cols(e, t))
        /\ Len(Val(e.tables[t]).rows) = Len(Val(d.tables[t]).rows)
        /\ \A i \in 1..Len(Val(d.tables[t]).rows) :
              \A c \in DOMAIN Val(d.tables[t]).rows[i] :
                 /\ c \in DOMAIN Val(e.tables[t]).rows[i]
                 /\ Val(e.tables[t]).rows[i][c] = Val(d.tables[t]).rows[i][c]

\* C17: after the ingestor's ensure_schema on any store, it has not raised,
\* toma_samples and alert_samples exist with every column that insert_telem
\* and insert_alert name, and every table, column, index and stored value of
\* the store before is still there.
C17_MigrationAdditive ==
  [][ (SchemaStep /\ Last(db_log').who = "ingest_tomas") =>
        /\ ~Last(db_log').raised
        /\ ~IsNone(db'.tables["toma_samples"])
        /\ ~IsNone(db'.tables["alert_samples"])
        /\ ColSet(IngestTomaCols) \subseteq ColSet(Cols(db', "toma_samples"))
        /\ ColSet(IngestAlertCols) \subseteq ColSet(Cols(db', "alert_samples"))
        /\ Preserved(db, db')
        /\ db.indexes \subseteq db'.indexes ]_vars
\* C18: the telemetry callback thread and the alert callback thread are never
\* both inside `with self.lock`, where the INSERT is executed; the holder of
\* the lock is the thread inside; and the INSERT of a thread inside appends
\* its whole row, all columns at once, before any other insert.
C18_WritesSerialized ==
  [][ /\ ~(pc_telem' = "locked" /\ pc_alert' = "locked")
      /\ pc_telem' = "locked" => writer_lock' = "telem"
      /\ pc_alert' = "locked" => writer_lock' = "alert"
      /\ (pc_telem = "locked" /\ pc_telem' # "locked" /\ Bindable(Val(telem_row))) =>
            /\ toma_samples' = Append(toma_samples, Val(telem_row))
            /\ UNCHANGED alert_samples
      /\ (pc_alert = "locked" /\ pc_alert' # "locked" /\ Bindable(Val(alert_row))) =>
            /\ alert_samples' = Append(alert_samples, Val(alert_row))
            /\ UNCHANGED toma_samples ]_vars

\* the alert thread is inside the lock while the telemetry thread, its row
\* built, waits to enter
C18_Witness ==
  /\ pc_alert = "locked"
  /\ pc_telem = "insert"
  /\ writer_lock = "alert"
  /\ ~IsNone(telem_row) /\ ~IsNone(alert_row)
\* how many times row r is in table q
Count(q, r) == Cardinality({i \in 1..Len(q) : q[i] = r})
\* table q without its last row
Front(q) == SubSeq(q, 1, Len(q) - 1)
RowsOf(q) == {q[i] : i \in 1..Len(q)}
\* after a pass at time ts that found table old and left table new: no row of
\* new is older than ts - 1800, and the rows of old not older than that are
\* all in new, ahead of the row of the pass
RetainedWindow(old, new, ts) ==
  /\ \A i \in 1..Len(new) : new[i].ts >= ts - 1800
  /\ new # <<>>
  /\ Last(new).ts = ts
  /\ \A r \in RowsOf(old) \cup RowsOf(Front(new)) :
        Count(Front(new), r) = IF r.ts >= ts - 1800 THEN Count(old, r) ELSE 0

\* C19: after every pass of stats_writer's loop, taken at time ts, pi_samples
\* and net_samples hold no row with timestamp < ts - 1800, and every row with
\* timestamp >= ts - 1800 that was there before the pass is still there.
C19_PurgeRespectsWindow ==
  [][ SwStep =>
        /\ RetainedWindow(pi_samples, pi_samples', sw_now \div 10)
        /\ RetainedWindow(net_samples, net_samples', sw_now \div 10) ]_vars

\* the third pass, 1799 s after the first and 1801 s after the second (the
\* clock had stepped back), kept the first pass's row and purged the second's
C19_Witness ==
  /\ sw_ticks = 3
  /\ Len(pi_samples) = 2 /\ Len(net_samples) = 2
  /\ pi_samples[1].ts = 2000 /\ pi_samples[2].ts = 3799
  /\ net_samples[1].ts = 2000 /\ net_samples[2].ts = 3799

\* every row of table old is in table new as it was, in the same place
KeptInPlace(old, new) == Len(new) >= Len(old) /\ SubSeq(new, 1, Len(old)) = old

\* a pass of stats_writer.main that an exception ends
SwFailStep == pc_sw = "loop" /\ pc_sw' = "dead"
\* new holds, but for a row added at its end, only rows of old, each no more
\* often than old
UnchangedRows(old, new) ==
  \E m \in {0, 1} :
     /\ m <= Len(new)
     /\ LET kept == SubSeq(new, 1, Len(new) - m)
        IN  \A r \in RowsOf(kept) : Count(kept, r) <= Count(old, r)

\* C20: no step changes a value of a stored row: the ingestor's tables keep
\* every row as it was and only grow at the end; a pass of stats_writer
\* leaves, ahead of the row it inserts, only rows that were there before,
\* each no more often than before, also when the pass ends in an exception;
\* after an ensure_schema and after every step of build_snapshot every row
\* has every value it had; and what the writers commit while build_snapshot
\* runs adds or removes whole rows.
C20_RowsNeverMutated ==
  [][ /\ KeptInPlace(toma_samples, toma_samples')
      /\ KeptInPlace(alert_samples, alert_samples')
      /\ IF SwStep
         THEN /\ \A r \in RowsOf(Front(pi_samples')) :
                    Count(Front(pi_samples'), r) <= Count(pi_samples, r)
              /\ \A r \in RowsOf(Front(net_samples')) :
                    Count(Front(net_samples'), r) <= Count(net_samples, r)
         ELSE IF SwFailStep
         THEN UnchangedRows(pi_samples, pi_samples') /\ UnchangedRows(net_samples, net_samples')
         ELSE UNCHANGED <<pi_samples, net_samples>>
      /\ IF n_writes' # n_writes
         THEN \A t \in TableNames : UnchangedRows(Rows(db, t), Rows(db', t))
         ELSE Preserved(db, db') ]_vars

\* two telemetry rows of the same outlet, stored at different times
C20_Witness ==
  /\ Len(toma_samples) = 2
  /\ toma_samples[1].toma = toma_samples[2].toma
  /\ toma_samples[1].ts < toma_samples[2].ts
\* the rows of one outlet have non-decreasing timestamps in insertion order
OrderedPerOutlet(table) ==
  \A i, j \in 1..Len(table) :
     i < j /\ table[i].toma = table[j].toma => table[i].ts <= table[j].ts

\* C21: in toma_samples and in alert_samples the rows of each outlet appear in
\* insertion order with non-decreasing timestamps.
C21_OrderedByTimestamp ==
  OrderedPerOutlet(toma_samples) /\ OrderedPerOutlet(alert_samples)

\* the call has filled out["derived"]
HasLiveness == ~IsNone(out) /\ DOMAIN Val(out).derived # {}
\* the TTL map of the result
Liveness == Val(out).derived.tomas_by_ttl
\* toma_samples as the queries for latest_map read it
TomaRowsRead == Rows(sn_read[2], "toma_samples")
\* the timestamps of outlet tn in rows
TimestampsOf(rows, tn) == {rows[i]["ts"] : i \in {j \in 1..Len(rows) : rows[j]["toma"] = tn}}

\* C22: for every outlet in the liveness map of a snapshot, the timestamp is
\* the maximum timestamp among the outlet's rows in toma_samples, the age is
\* now minus that timestamp, and online is 1 when the age is <= ttl and 0
\* when it is > ttl.
C22_LivenessFromLatest ==
  HasLiveness =>
    \A tn \in DOMAIN Liveness :
       LET e == Liveness[tn]
           call == Val(sn_call)
       IN  /\ e.ts \in TimestampsOf(TomaRowsRead, tn)
           /\ \A t \in TimestampsOf(TomaRowsRead, tn) : t <= e.ts
           /\ e.age_sec = call.now - e.ts
           /\ e.age_sec <= call.ttl_sec => e.online = 1
           /\ e.age_sec > call.ttl_sec => e.online = 0

\* the snapshot with TTL 10 of a store where toma1 was last heard 15 s ago
\* (after an older row stored later) and toma2 10 s ago: toma1 is offline
\* with age 15, toma2 online with age 10
C22_Witness ==
  /\ sn_pc = "done"
  /\ n_writes = 0
  /\ HasLiveness
  /\ Val(sn_call).ttl_sec = 10
  /\ {S_toma1, S_toma2} \subseteq DOMAIN Liveness
  /\ Liveness[S_toma1].age_sec = 15 /\ Liveness[S_toma1].online = 0
  /\ Liveness[S_toma2].age_sec = 10 /\ Liveness[S_toma2].online = 1

\* outlet k has no row in toma_samples as the call read it, or there is no store
NeverSeen(k) ==
  IF Len(sn_read) < 2 THEN TRUE ELSE TimestampsOf(TomaRowsRead, k) = {}

\* C23: an outlet without any sample is listed offline with the age 10^9, and
\* the call that was asked for it has not raised, with and without a store file.
C23_NeverSeenOffline ==
  /\ sn_pc # "raised"
  /\ ~IsNone(tomas_detail) =>
       \A k \in EXPECTED_TOMAS :
          /\ k \in DOMAIN Val(tomas_detail)
          /\ NeverSeen(k) => /\ Val(tomas_detail)[k].online = FALSE
                             /\ Val(tomas_detail)[k].age_sec = 10^9

\* the list made of a snapshot of the ingestor's store, where only toma2 has
\* rows: toma2 is online, toma1 is offline with the age 10^9
C23_Witness ==
  /\ ~IsNone(tomas_detail)
  /\ db_exists
  /\ ~NeverSeen(S_toma2) /\ Val(tomas_detail)[S_toma2].online
  /\ NeverSeen(S_toma1)
  /\ Val(tomas_detail)[S_toma1].online = FALSE
  /\ Val(tomas_detail)[S_toma1].age_sec = 10^9

\* how many rows of q are stamped t
Stamped(q, t) == Cardinality({i \in 1..Len(q) : q[i]["ts"] = t})

\* series is a window of at most limit rows over the rows stored: as long as
\* the limit allows, in non-decreasing order of ts, made of stored rows, and
\* no stored row left out is newer than a row of the window
RecentWindow(series, stored, limit) ==
  /\ Len(series) = Min(limit, Len(stored))
  /\ \A i, j \in 1..Len(series) : i < j => series[i]["ts"] <= series[j]["ts"]
  /\ \A i \in 1..Len(series) : Stamped(series, series[i]["ts"]) <= Stamped(stored, series[i]["ts"])
  /\ \A k \in 1..Len(stored) :
        Stamped(series, stored[k]["ts"]) < Stamped(stored, stored[k]["ts"])
          => \A i \in 1..Len(series) : stored[k]["ts"] <= series[i]["ts"]

\* the call has filled out["tables"]["toma_samples"]
HasSeries == ~IsNone(out) /\ "toma_samples" \in DOMAIN Val(out).tables

\* C24: in a snapshot the network series is a window of at most
\* max_rows_per_table rows and each outlet's series one of at most toma_points
\* rows over the rows read: sorted by non-decreasing timestamp and made of the
\* most recent rows.
C24_BoundedAscendingWindows ==
  HasSeries =>
    LET call == Val(sn_call)
        tables == Val(out).tables
    IN  /\ Len(tables.net_samples.series) <= call.max_rows_per_table
        /\ RecentWindow(tables.net_samples.series, Rows(sn_read[1], "net_samples"),
                        call.max_rows_per_table)
        /\ \A tn \in DOMAIN tables.toma_samples.series_per_toma :
              /\ Len(tables.toma_samples.series_per_toma[tn]) <= call.toma_points
              /\ RecentWindow(tables.toma_samples.series_per_toma[tn],
                              OfToma(Rows(sn_read[3], "toma_samples"), tn), call.toma_points)

\* a snapshot with both limits 2 of the store whose three network rows and
\* three toma1 rows were not stored in the order of their timestamps: each
\* window holds the two newest, oldest first
C24_Witness ==
  /\ sn_pc = "done"
  /\ HasSeries
  /\ n_writes = 0
  /\ Val(sn_call).max_rows_per_table = 2
  /\ Len(Rows(db, "net_samples")) = 3
  /\ Len(Val(out).tables.net_samples.series) = 2
  /\ Val(out).tables.net_samples.series[1]["ts"] = SnStart - 1
  /\ Val(out).tables.net_samples.series[2]["ts"] = SnStart
  /\ Len(Val(out).tables.toma_samples.series_per_toma[S_toma1]) = 2
  /\ Val(out).tables.toma_samples.series_per_toma[S_toma1][1]["ts"] = SnStart - 17
  /\ Val(out).tables.toma_samples.series_per_toma[S_toma1][2]["ts"] = SnStart - 15

\* build_snapshot is called
SnCallStep == sn_pc = "idle" /\ sn_pc' # "idle"

\* C25: called when there is no store file, build_snapshot returns at once,
\* without raising, a snapshot with no table data, an empty derived map and
\* alerts of count 0 with an empty series, and there is still no store file.
C25_NoStoreEmptySnapshot ==
  [][ SnCallStep /\ ~db_exists =>
        /\ sn_pc' = "done"
        /\ DOMAIN Val(out').tables = {}
        /\ DOMAIN Val(out').derived = {}
        /\ Val(out').alerts.count_120s = 0
        /\ Val(out').alerts.series = <<>>
        /\ Val(out').now_ts = Val(sn_call').now
        /\ Val(out').ttl_sec = Val(sn_call').ttl_sec
        /\ ~db_exists'
        /\ db' = db ]_vars

\* the call has returned and there is no store file
C25_Witness ==
  /\ sn_pc = "done"
  /\ ~db_exists
  /\ ~IsNone(out)
  /\ Val(out).alerts.count_120s = 0

\* what every query of build_snapshot returns on the one store state d
SnapshotOf(d, call) ==
  [now_ts |-> call.now, ttl_sec |-> call.ttl_sec,
   tables |-> [pi_samples |-> NetTables(d, call).pi_samples,
               net_samples |-> NetTables(d, call).net_samples,
               toma_samples |-> [latest_per_toma |-> LatestPerToma(d),
                                 series_per_toma |-> SeriesPerToma(d, call.toma_points)],
               alert_samples |-> [count_120s |-> CountAlerts(d, call.now),
                                  series_120s |-> AlertSeries(d, call.now)]],
   derived |-> [tomas_by_ttl |-> by_ttl(LatestPerToma(d), call.now, call.ttl_sec)],
   alerts |-> [count_120s |-> CountAlerts(d, call.now), series |-> AlertSeries(d, call.now)]]

\* C26: the result of a build_snapshot call on an existing store is what its
\* queries return on one store state there was during the call.
C26_SingleReadState ==
  sn_pc \in {"done", "shown"} /\ db_exists =>
    \E d \in sn_states : Val(out) = SnapshotOf(d, Val(sn_call))

\* a step of the build_snapshot call
BuildSnapshotStep == sn_pc' # sn_pc /\ sn_pc' # "shown"

\* C27: a build_snapshot call leaves the store as it found it: the file, its
\* tables, columns, indexes and rows.
C27_SnapshotReadOnly ==
  [][ BuildSnapshotStep => db' = db /\ db_exists' = db_exists ]_vars

\* the rows of every table a build_snapshot step found are the rows it leaves
SnapshotRowsUntouched ==
  [][ BuildSnapshotStep =>
        \A t \in TableNames :
           ~IsNone(db.tables[t]) => ~IsNone(db'.tables[t]) /\ Rows(db', t) = Rows(db, t) ]_vars

RECURSIVE SumOfCounts(_)
\* the sum of the n of the entries of an alert series
SumOfCounts(q) == IF q = <<>> THEN 0 ELSE q[1].n + SumOfCounts(Tail(q))

\* the call has returned from an existing store on which nothing was
\* committed meanwhile
QuiescentSnapshot == sn_pc \in {"done", "shown"} /\ db_exists /\ n_writes = 0

\* C28: in a snapshot over a quiescent store, alerts.count_120s is the number
\* of alert_samples rows with ts >= now - 120, and alerts.series has one entry
\* per distinct ts of those rows, in ascending order of ts, each with the
\* number of rows of its ts, the counts summing to count_120s.
C28_AlertWindowCount ==
  QuiescentSnapshot =>
    LET rows == Rows(db, "alert_samples")
        now == Val(sn_call).now
        inwin == {i \in 1..Len(rows) : rows[i]["ts"] >= now - 120}
        alerts == Val(out).alerts
    IN  /\ alerts.count_120s = Cardinality(inwin)
        /\ {alerts.series[k].ts : k \in 1..Len(alerts.series)} = {rows[i]["ts"] : i \in inwin}
        /\ \A j, k \in 1..Len(alerts.series) : j < k => alerts.series[j].ts < alerts.series[k].ts
        /\ \A k \in 1..Len(alerts.series) :
              alerts.series[k].n = Cardinality({i \in inwin : rows[i]["ts"] = alerts.series[k].ts})
        /\ SumOfCounts(alerts.series) = alerts.count_120s

\* the snapshot of the store with alerts 121, 120, 5, 5 and 0 s old: four are
\* counted, in three entries, the two of the same second together
C28_Witness ==
  /\ QuiescentSnapshot
  /\ Val(out).alerts.count_120s = 4
  /\ Val(out).alerts.series =
       << [ts |-> SnStart - 120, n |-> 1], [ts |-> SnStart - 5, n |-> 2], [ts |-> SnStart, n |-> 1] >>

\* C29: a failed read of a host counter at some tick is never raised out of
\* the sampler: main of estadisticas is never left by an exception, its
\* periodic loop is at its sleep or inside a pass at every moment.
C29_ReadFailureNeverRaised == pc_main # "dead"

\* C30: once the store has been opened, no failure of a later pass ends the
\* writer: the loop of stats_writer is still running after every pass,
\* whether its statements succeeded or the store was busy.
C30_OnlyOpenFailureAborts == pc_sw = "loop"

\* the rates of a stored network sample come from the shaper's class counters:
\* net_mbps has no other source, and gives zeros when it has no counters
FromShaper(r) == r.hi_mbps > 0 \/ r.med_mbps > 0 \/ r.low_mbps > 0

\* C31: every row of net_samples names the source of its rates: a row whose
\* hi/med/low rates were derived from the shaper's class counters carries
\* qos_src "tc", never the message-volume tag "mqtt".
C31_SourceTagNamesSource ==
  \A i \in 1..Len(net_samples) :
     FromShaper(net_samples[i]) => net_samples[i].qos_src = "tc"

\* the read-and-reset of a pass of main: the step that leaves `with _latest_lock`
ResetStep == pc_main = "reset" /\ pc_main' = "sleep"

\* C32: after the read-and-reset of each tick the three message-volume
\* accumulators bytes_telem, bytes_alert and bytes_status are zero.
C32_AccumulatorsZeroAfterReset ==
  [][ ResetStep =>
        /\ latest_toma1'["bytes_telem"] = 0
        /\ latest_toma1'["bytes_alert"] = 0
        /\ latest_toma1'["bytes_status"] = 0 ]_vars

\* the rates of a stored network sample are all zero
ZeroRates(r) == r.hi_mbps = 0 /\ r.med_mbps = 0 /\ r.low_mbps = 0

\* the rate net_mbps gives a class whose counter went from prev to cur, over
\* the time from one call to the next
ClassRate(cur, prev, from, to) == (Max(0, cur - prev) * 8 * 10) \div Max(2, to - from)

\* C33: the first sample after process start emits 0 for every rate: the
\* first call of cpu_pct returns 0, the first call of net_mbps that sees
\* shaper counters returns (0, 0, 0), and the counters that call saw are the
\* baseline of the next call that sees counters: a class in both is rated by
\* its bytes since then.
C33_FirstSampleZero ==
  [][ SwStep =>
        /\ IsNone(prev_cpu) => Last(pi_samples').cpu_pct = 0 /\ ~IsNone(prev_cpu')
        /\ IsNone(last_t) /\ ~IsNone(last_t') =>
             /\ ZeroRates(Last(net_samples'))
             /\ rx' \in {h.tc : h \in HostReadings} \ {<<>>}
             /\ last_t' = Some(sw_now)
        /\ ~IsNone(last_t) /\ last_t' # last_t /\ CLASS_HIGH \in DOMAIN rx =>
             Last(net_samples').hi_mbps =
               ClassRate(rx'[CLASS_HIGH], rx[CLASS_HIGH], Val(last_t), sw_now) ]_vars

\* two passes that saw the shaper: the first stored zeros, the second the
\* rate of the bytes sent since the first
C33_Witness ==
  /\ Len(net_samples) = 2 /\ Len(pi_samples) = 2
  /\ ZeroRates(net_samples[1]) /\ pi_samples[1].cpu_pct = 0
  /\ net_samples[2].hi_mbps > 0 /\ pi_samples[2].cpu_pct > 0

\* C34: when no time has passed between two successive calls of net_mbps, or
\* the clock stepped back, each class rate stored for the pass is the rate of
\* the previous pass or 0, never a value computed over a substituted interval.
C34_NoRateWithoutElapsedTime ==
  [][ SwStep /\ ~IsNone(last_t) /\ last_t' # last_t /\ sw_now <= Val(last_t) =>
        \A cid \in {CLASS_HIGH, CLASS_MED, CLASS_LOW} :
           RowRate(Last(net_samples'), cid) \in {0, RowRate(Last(net_samples), cid)} ]_vars

\* C35: a shaper class rate of a pass of estadisticas accounts for the bytes
\* of that pass's one interval only: a class whose counter was not available
\* at the previous pass, or is not at this one, gets no rate (None), so the
\* pass at which the shaper output returns after a gap does not rate a class
\* against the baseline retained from before the gap.
C35_NoRateAcrossGap ==
  [][ EstSampleStep =>
        /\ IsNone(Get(cur_tc, CLASS_HIGH)) \/ IsNone(Get(cur_tc', CLASS_HIGH)) => IsNone(hi_tc')
        /\ IsNone(Get(cur_tc, CLASS_MED)) \/ IsNone(Get(cur_tc', CLASS_MED)) => IsNone(med_tc')
        /\ IsNone(Get(cur_tc, CLASS_LOW)) \/ IsNone(Get(cur_tc', CLASS_LOW)) => IsNone(low_tc') ]_vars

\* the values the shaper reports for class cid
CounterReads(cid) == {h.tc[cid] : h \in {g \in HostReadings : cid \in DOMAIN g.tc}}

\* C36: the baseline net_mbps keeps for a class is always a counter value the
\* shaper reported for that class: it is never replaced by 0 at a pass where
\* the class is missing from the shaper output, so the pass at which the
\* class is back is not rated against 0 (its whole lifetime counter).
C36_BaselineIsCounterRead ==
  \A cid \in DOMAIN rx : rx[cid] \in CounterReads(cid)

\* build_snapshot has returned a snapshot of an existing store
SnapshotBuilt == sn_pc \in {"done", "shown"} /\ db_exists

\* C37: in every snapshot, whatever the ingestor inserted between the moment
\* build_snapshot fixed `now` and its queries, every outlet's age_sec is >= 0
\* and no entry of the alert window has a timestamp later than now.
C37_NothingFromTheFuture ==
  SnapshotBuilt =>
    LET snap == Val(out)
    IN  /\ \A tn \in DOMAIN snap.derived.tomas_by_ttl :
              snap.derived.tomas_by_ttl[tn].age_sec >= 0
        /\ \A k \in 1..Len(snap.alerts.series) : snap.alerts.series[k].ts <= snap.now_ts

\* the timestamp of the last row inserted for outlet tn: the time the
\* ingestor accepted the outlet's last telemetry message
LastAcceptedAt(rows, tn) ==
  LET of == SelectSeq(rows, LAMBDA r : r["toma"] = tn)
  IN  of[Len(of)]["ts"]

\* C38: liveness follows telemetry arrival: when the last telemetry message of
\* outlet X was accepted at time t, a snapshot built at now with
\* t <= now <= t + ttl reports X online, and one built at now > t + ttl
\* reports X offline, whatever alert rows X has.
C38_LivenessFollowsArrival ==
  HasLiveness =>
    \A tn \in DOMAIN Liveness :
       LET t == LastAcceptedAt(TomaRowsRead, tn)
           now == Val(sn_call).now
           ttl == Val(sn_call).ttl_sec
       IN  /\ t <= now /\ now <= t + ttl => Liveness[tn].online = 1
           /\ now > t + ttl => Liveness[tn].online = 0

\* C39: every row of toma_samples and of alert_samples has a non-empty outlet
\* id: a payload whose toma or id field normalizes to the empty text (only
\* whitespace) leaves no row.
C39_NoEmptyOutletId == \A r \in OutletRows : r.toma # <<>>

\* C40: the reserved-identifier filter decides alike for telemetry and for
\* alerts: a delivered alert is rejected exactly when on_telem rejects the
\* same entity segment and payload, and a delivered telemetry message exactly
\* when on_alert rejects them.
C40_SameFilterBothKinds ==
  ~IsNone(last_msg) =>
    LET m == Val(last_msg)
    IN  /\ m.kind = "alert" =>
             (m.accepted <=> ~IsNone(on_telem(<<"safegrid", m.id, "telemetry">>, m.doc)))
        /\ m.kind = "telem" =>
             (m.accepted <=> ~IsNone(on_alert(<<"safegrid", m.id, "alert">>, m.doc)))

====
